---- MODULE Spec2Model ----
(***************************************************************************)
(* ClauseEase contract simplifier: the clause segmenter, the clause        *)
(* classifier, the legal term extractor, the lazily loaded simplifier and  *)
(* the two document-processing request handlers.                           *)
(*                                                                         *)
(* Text is a sequence of one-character strings.  Regular expressions are   *)
(* sequences of items (a character class with a repetition range, or the   *)
(* word-boundary assertion) matched with Python's leftmost, greedy         *)
(* semantics.                                                              *)
(***************************************************************************)
EXTENDS Integers, Sequences, FiniteSets, TLC

VARIABLES
    segText,      \* segment_clauses: the argument `text`
    segClauses,   \* segment_clauses: the returned list
    segDone,      \* segment_clauses has returned
    segRecords,   \* the clause records a handler without capabilities builds from `text`
    rulesText,    \* _rule_based_classify: the argument `text`
    rulesLabel,   \* _rule_based_classify: the returned label
    rulesDone,    \* _rule_based_classify has returned
    termText,     \* extract_legal_terms: the argument `text`
    termAcc,      \* extract_legal_terms: `found` and `seen` before the spaCy stage
    termNer,      \* extract_legal_terms: what the entity recogniser did
    termFound,    \* extract_legal_terms: the returned list `found`
    termPc,       \* extract_legal_terms: "start", "ner" (before the spaCy stage), "done"
    _HAS_TRANSFORMERS, \* module3: the import of transformers and torch succeeded
    _HAS_HF,      \* module5: the import of transformers.pipeline succeeded
    _model,       \* module3 global: "None" or "model"
    _tokenizer,   \* module3 global: "None" or "tokenizer"
    _simplifier,  \* module5 global: "None" or "pipeline"
    _load_attempted, \* module5 global
    built,        \* history: how many constructions each capability has started
    lastCall,     \* sequential calls: the last completed call, its inputs and result
    ncalls,       \* sequential calls: how many calls have completed
    hist,         \* sequential calls: what earlier calls did
    job,          \* threads: what each thread was asked to do, with its oracles
    th,           \* threads: each thread's position and local values
    pipelineOutcome, \* threads: what pipeline(...) does in this process
    start,        \* threads: the globals when the threads started
    program,      \* server: the program that runs, "main" (main.py) or "app" (app.py)
    docs,         \* server: the document records stored in the database
    lastRequest,  \* server: the last request handled, what it did and its response
    nrequests,    \* server: how many requests have been handled
    simIn,        \* simplify_text with a loaded paraphraser: the arguments `text`, `level`
    simRun,       \* simplify_text with a loaded paraphraser: what sent_tokenize and the paraphraser do
    simRes,       \* simplify_text with a loaded paraphraser: the sentences, the list built, the returned text
    simDone,      \* simplify_text with a loaded paraphraser has returned
    cleanText,    \* clean_text: the argument `text` of the first call
    cleanOuts,    \* clean_text: the value returned by each successive call
    metText,      \* the metrics functions: the argument `text`
    metRes        \* the metrics functions: what each function called so far met and returned

segVars == <<segText, segClauses, segDone, segRecords>>

rulesVars == <<rulesText, rulesLabel, rulesDone>>

termVars == <<termText, termAcc, termNer, termFound, termPc>>

modVars == <<_HAS_TRANSFORMERS, _HAS_HF, _model, _tokenizer, _simplifier,
             _load_attempted, built>>

callVars == <<lastCall, ncalls, hist>>

thrVars == <<job, th, pipelineOutcome, start>>

srvVars == <<program, docs, lastRequest, nrequests>>

simVars == <<simIn, simRun, simRes, simDone>>

cleanVars == <<cleanText, cleanOuts>>

metVars == <<metText, metRes>>

vars == <<segVars, rulesVars, termVars, modVars, callVars, thrVars, srvVars,
          simVars, cleanVars, metVars>>

(***************************************************************************)
(* Characters and Python's str helpers                                     *)
(***************************************************************************)
UpperLetters == {"A","B","C","D","E","F","G","H","I","J","K","L","M",
                 "N","O","P","Q","R","S","T","U","V","W","X","Y","Z"}

LowerLetters == {"a","b","c","d","e","f","g","h","i","j","k","l","m",
                 "n","o","p","q","r","s","t","u","v","w","x","y","z"}

Digits == {"0","1","2","3","4","5","6","7","8","9"}

\* str.isspace() / the regular expression class \s
Whitespace == {" ", "\t", "\n", "\r", "\f", "VT", "NBSP"}

WordChars == UpperLetters \cup LowerLetters \cup Digits \cup {"_"}

LowerOf ==
    [c \in UpperLetters |->
        CASE c = "A" -> "a" [] c = "B" -> "b" [] c = "C" -> "c" [] c = "D" -> "d"
          [] c = "E" -> "e" [] c = "F" -> "f" [] c = "G" -> "g" [] c = "H" -> "h"
          [] c = "I" -> "i" [] c = "J" -> "j" [] c = "K" -> "k" [] c = "L" -> "l"
          [] c = "M" -> "m" [] c = "N" -> "n" [] c = "O" -> "o" [] c = "P" -> "p"
          [] c = "Q" -> "q" [] c = "R" -> "r" [] c = "S" -> "s" [] c = "T" -> "t"
          [] c = "U" -> "u" [] c = "V" -> "v" [] c = "W" -> "w" [] c = "X" -> "x"
          [] c = "Y" -> "y" [] c = "Z" -> "z"]

LowerChar(c) == IF c \in UpperLetters THEN LowerOf[c] ELSE c

\* str.lower()
Lower(s) == [i \in 1..Len(s) |-> LowerChar(s[i])]

Max(S) == CHOOSE m \in S : \A n \in S : n <= m

Min(S) == CHOOSE m \in S : \A n \in S : m <= n

\* the element of a one-element set. The({e : x \in {v}}) is e with x naming
\* the value of v: a stage of a computation is worked out once and the
\* stages after it use its value
The(S) == CHOOSE x \in S : TRUE

\* str.strip()
Strip(s) ==
    LET keep == {i \in 1..Len(s) : s[i] \notin Whitespace}
    IN  IF keep = {} THEN <<>> ELSE SubSeq(s, Min(keep), Max(keep))

\* s[:n]
Prefix(s, n) == SubSeq(s, 1, IF n < Len(s) THEN n ELSE Len(s))

\* `w in t` for strings
Contains(t, w) ==
    \E i \in 1..(Len(t) - Len(w) + 1) : SubSeq(t, i, i + Len(w) - 1) = w

(***************************************************************************)
(* Regular expressions (module re)                                         *)
(***************************************************************************)
\* one character of a class
One(S) == [kind |-> "cls", set |-> S, min |-> 1, max |-> 1, open |-> FALSE]

\* a class repeated between lo and hi times, greedy: {lo,hi} and ?
Rep(S, lo, hi) == [kind |-> "cls", set |-> S, min |-> lo, max |-> hi, open |-> FALSE]

\* a class repeated lo times or more, greedy: * and +
AtLeast(S, lo) == [kind |-> "cls", set |-> S, min |-> lo, max |-> lo, open |-> TRUE]

\* \b
WordBoundary == [kind |-> "wb", set |-> {}, min |-> 0, max |-> 0, open |-> FALSE]

\* a literal string
Lit(s) == [i \in 1..Len(s) |-> One({s[i]})]

InClass(c, item, ignorecase) ==
    IF ignorecase
    THEN \E d \in item.set : LowerChar(d) = LowerChar(c)
    ELSE c \in item.set

\* how many characters from pos on lie in the item's class, up to its max
RECURSIVE RunLength(_, _, _, _, _)
RunLength(text, pos, item, ignorecase, n) ==
    IF (~item.open /\ n >= item.max) \/ pos + n > Len(text)
          \/ ~InClass(text[pos + n], item, ignorecase)
    THEN n
    ELSE RunLength(text, pos, item, ignorecase, n + 1)

AtWordBoundary(text, pos) ==
    LET before == pos > 1 /\ text[pos - 1] \in WordChars
        after  == pos <= Len(text) /\ text[pos] \in WordChars
    IN  before # after

\* the positions just after a match of items k.. of pat that starts at pos
RECURSIVE MatchEnds(_, _, _, _, _)
MatchEnds(pat, k, text, pos, ignorecase) ==
    IF k > Len(pat) THEN {pos}
    ELSE IF pat[k].kind = "wb"
    THEN IF AtWordBoundary(text, pos)
         THEN MatchEnds(pat, k + 1, text, pos, ignorecase)
         ELSE {}
    ELSE LET run == RunLength(text, pos, pat[k], ignorecase, 0)
         IN  UNION {MatchEnds(pat, k + 1, text, pos + n, ignorecase) :
                        n \in pat[k].min..run}

\* re.finditer: leftmost non-overlapping matches from position `from` on,
\* each [start, end) with the greedy end
RECURSIVE FindIter(_, _, _, _)
FindIter(pat, text, from, ignorecase) ==
    LET starts == {s \in from..Len(text) :
                      MatchEnds(pat, 1, text, s, ignorecase) # {}}
    IN  IF starts = {} THEN <<>>
        ELSE The({<<[start |-> s, end |-> e]>>
                      \o FindIter(pat, text, IF e > s THEN e ELSE s + 1, ignorecase) :
                  s \in {Min(starts)},
                  e \in {Max(MatchEnds(pat, 1, text, Min(starts), ignorecase))}})

\* re.sub(pat, repl, text) for a replacement without group references
ReSub(pat, repl, text, ignorecase) ==
    The({LET piece(i) == SubSeq(text, IF i = 1 THEN 1 ELSE ms[i - 1].end,
                                ms[i].start - 1)
             RECURSIVE build(_)
             build(i) == IF i > Len(ms)
                         THEN SubSeq(text, IF i = 1 THEN 1 ELSE ms[i - 1].end, Len(text))
                         ELSE piece(i) \o repl \o build(i + 1)
         IN  build(1) :
         ms \in {FindIter(pat, text, 1, ignorecase)}})

\* re.split(pat, text) for a pattern without groups
ReSplit(pat, text, ignorecase) ==
    The({[i \in 1..(Len(ms) + 1) |->
            SubSeq(text,
                   IF i = 1 THEN 1 ELSE ms[i - 1].end,
                   IF i > Len(ms) THEN Len(text) ELSE ms[i].start - 1)] :
         ms \in {FindIter(pat, text, 1, ignorecase)}})

(***************************************************************************)
(* module2_text_preprocessing.segment_clauses                              *)
(***************************************************************************)
\* the clause markers, in the order of the list `markers`
markers == <<
    [label |-> "ANNEXURE",
     pattern |-> Lit(<<"A","n","n","e","x","u","r","e">>)
                    \o <<Rep({"-"}, 0, 1), AtLeast(Whitespace, 0)>>],
    [label |-> "HEADING",
     pattern |-> Lit(<<"A","G","R","E","E","M","E","N","T"," ","F","O","R","M","A","T">>)],
    [label |-> "SUBHEADING",
     pattern |-> Lit(<<"(","O","N"," ","N","O","N","-","J","U","D","I","C","I","A","L">>)],
    [label |-> "PREAMBLE",
     pattern |-> Lit(<<"T","h","i","s">>) \o <<AtLeast(Whitespace, 1)>>
                    \o Lit(<<"a","g","r","e","e","m","e","n","t">>) \o <<AtLeast(Whitespace, 1)>>
                    \o Lit(<<"i","s">>) \o <<AtLeast(Whitespace, 1)>>
                    \o Lit(<<"m","a","d","e">>)],
    [label |-> "AND_SEPARATOR",
     pattern |-> <<WordBoundary>> \o Lit(<<"A","N","D">>)
                    \o <<AtLeast(Whitespace, 0), One({"\n"})>>],
    [label |-> "WHEREAS",
     pattern |-> Lit(<<"W","h","e","r","e","a","s">>) \o <<AtLeast(Whitespace, 1)>>
                    \o Lit(<<"t","h","e">>) \o <<AtLeast(Whitespace, 1)>>
                    \o Lit(<<"E","m","p","l","o","y","e","r">>)],
    [label |-> "WITNESSETH",
     pattern |-> Lit(<<"N","O","W"," ","T","H","I","S"," ","A","G","R","E","E","M","E","N","T",
                       " ","W","I","T","N","E","S","S","E","T","H">>)],
    [label |-> "NUMBERED_CLAUSE",
     pattern |-> <<One({"\n"}), AtLeast(Whitespace, 0), AtLeast(Digits, 1), One({"."}),
                   AtLeast(Whitespace, 1), One(UpperLetters)>>],
    [label |-> "IN_WITNESS",
     pattern |-> Lit(<<"I","n"," ","w","i","t","n","e","s","s"," ","w","h","e","r","e","o","f">>)],
    [label |-> "SEAL",
     pattern |-> Lit(<<"T","h","e"," ","C","o","m","m","o","n"," ","S","e","a","l">>)],
    [label |-> "SIGNED",
     pattern |-> Lit(<<"S","i","g","n","e","d"," ","S","e","a","l","e","d"," ","a","n","d"," ",
                       "D","e","l","i","v","e","r","e","d">>)],
    [label |-> "EMPLOYER_SIG",
     pattern |-> Lit(<<"F","o","r"," ","&"," ","o","n"," ","b","e","h","a","l","f"," ","o","f"," ",
                       "E","m","p","l","o","y","e","r">>)],
    [label |-> "CONTRACTOR_SIG",
     pattern |-> Lit(<<"F","o","r"," ","&"," ","o","n"," ","b","e","h","a","l","f"," ","o","f"," ",
                       "C","o","n","t","r","a","c","t","o","r">>)],
    [label |-> "NOTE",
     pattern |-> <<WordBoundary>> \o Lit(<<"N","o","t","e",":">>)] >>

\* text = re.sub(r'\r\n?', '\n', text); text = re.sub(r'\n+', '\n', text)
NormalizeLineBreaks(text) ==
    The({ReSub(<<AtLeast({"\n"}, 1)>>, <<"\n">>, unix, FALSE) :
         unix \in {ReSub(<<One({"\r"}), Rep({"\n"}, 0, 1)>>, <<"\n">>, text, FALSE)}})

\* the list left as the marker loop built it, in the order of `markers`
SortByPos_Unsorted(s) == s

\* list.sort(key=position): stable, ties keep their order
RECURSIVE SortByPos(_)
SortByPos(s) ==
    IF s = <<>> THEN <<>>
    ELSE LET m == Min({s[i].pos : i \in 1..Len(s)})
             i == Min({j \in 1..Len(s) : s[j].pos = m})
         IN  <<s[i]>> \o SortByPos(SubSeq(s, 1, i - 1) \o SubSeq(s, i + 1, Len(s)))

\* the list `splits` (1-based start positions) of the line-break-normalized text
RECURSIVE MarkerMatches(_, _)
MarkerMatches(text, k) ==
    IF k > Len(markers) THEN <<>>
    ELSE LET ms == FindIter(markers[k].pattern, text, 1, TRUE)
         IN  [i \in 1..Len(ms) |-> [pos |-> ms[i].start, label |-> markers[k].label]]
                \o MarkerMatches(text, k + 1)

Splits(text) == SortByPos(MarkerMatches(text, 1))

\* a marker clause is kept when longer than this
MinMarkerClauseLen == 15

\* the final clean-up keeps clauses longer than this
MinCleanClauseLen == 10

\* a paragraph is kept when longer than this
MinParagraphLen == 20

\* the paragraph fallback, taken when no marker matched
ParagraphClauses(text) ==
    LET parts == ReSplit(<<One({"\n"}), AtLeast(Whitespace, 0), AtLeast({"\n"}, 1)>>,
                         text, FALSE)
        stripped == [i \in 1..Len(parts) |-> Strip(parts[i])]
        NonEmpty(p) == p # <<>>
        Long(p) == Len(p) > MinParagraphLen
    IN  SelectSeq(SelectSeq(stripped, NonEmpty), Long)

\* ExtractClauses without the text before the first marker
RECURSIVE ExtractClauses_NoPreMarker(_, _, _)
ExtractClauses_NoPreMarker(text, splits, i) ==
    IF i > Len(splits) THEN <<>>
    ELSE LET pos == splits[i].pos
             end_pos == IF i + 1 <= Len(splits) THEN splits[i + 1].pos ELSE Len(text) + 1
             clause_text == Strip(SubSeq(text, pos, end_pos - 1))
             own == IF clause_text # <<>> /\ Len(clause_text) > 15
                    THEN <<clause_text>>
                    ELSE <<>>
         IN  own \o ExtractClauses_NoPreMarker(text, splits, i + 1)

\* the loop over `splits`: the clauses appended before the clean-up
RECURSIVE ExtractClauses(_, _, _)
ExtractClauses(text, splits, i) ==
    IF i > Len(splits) THEN <<>>
    ELSE LET pos == splits[i].pos
             pre == IF i = 1 /\ pos > 1
                    THEN <<Strip(SubSeq(text, 1, pos - 1))>>
                    ELSE <<>>
             end_pos == IF i + 1 <= Len(splits) THEN splits[i + 1].pos ELSE Len(text) + 1
             clause_text == Strip(SubSeq(text, pos, end_pos - 1))
             own == IF clause_text # <<>> /\ Len(clause_text) > MinMarkerClauseLen
                    THEN <<clause_text>>
                    ELSE <<>>
         IN  pre \o own \o ExtractClauses(text, splits, i + 1)

\* clauses = [c.strip() for c in clauses if c.strip() and len(c.strip()) > 10]
CleanUpClauses(clauses) ==
    LET stripped == [i \in 1..Len(clauses) |-> Strip(clauses[i])]
        Keep(c) == c # <<>> /\ Len(c) > MinCleanClauseLen
    IN  SelectSeq(stripped, Keep)

MarkerClauses(text, splits) == CleanUpClauses(ExtractClauses(text, splits, 1))

\* segment_clauses returning `clauses` without the whole-text fallback
segment_clauses_NoFallback(raw) ==
    IF raw = <<>> \/ Strip(raw) = <<>> THEN <<raw>>
    ELSE The({The({IF splits = <<>>
                   THEN ParagraphClauses(text)
                   ELSE MarkerClauses(text, splits) :
                   splits \in {Splits(text)}}) :
              text \in {NormalizeLineBreaks(raw)}})

segment_clauses(raw) ==
    IF raw = <<>> \/ Strip(raw) = <<>> THEN <<raw>>
    ELSE The({The({The({IF clauses # <<>> THEN clauses ELSE <<text>> :
                        clauses \in {IF splits = <<>>
                                     THEN ParagraphClauses(text)
                                     ELSE MarkerClauses(text, splits)}}) :
                   splits \in {Splits(text)}}) :
              text \in {NormalizeLineBreaks(raw)}})

(***************************************************************************)
(* The segmenter applied to bounded inputs                                 *)
(***************************************************************************)
\* the pieces the input texts are put together from
SegChunks == <<
    <<"\n","2","."," ","B">>,
    <<"t","h","e"," ","c","o","n","t","r","a","c","t","o","r"," ","s","h","a","l","l"," ","p","a","y">>,
    <<"p","a","y"," ","t","h","e"," ","f","e","e","s">>,
    <<"o","k">>,
    <<" ","N","o","t","e",":">>,
    <<"\n"," ","\n">>,
    <<"\r","\n","\r","\n">>,
    <<"T","h","e"," "," ","C","o","m","m","o","n"," ","S","e","a","l">> >>

\* the most pieces in one input text
MaxChunks == 3

RECURSIVE ConcatChunks(_, _)
ConcatChunks(chunks, picks) ==
    IF picks = <<>> THEN <<>>
    ELSE chunks[Head(picks)] \o ConcatChunks(chunks, Tail(picks))

TextsFrom(chunks, maxChunks) ==
    UNION {{ConcatChunks(chunks, picks) : picks \in [1..n -> 1..Len(chunks)]} :
              n \in 0..maxChunks}

SegInputs == TextsFrom(SegChunks, MaxChunks)

SegInit ==
    /\ segText \in SegInputs
    /\ segClauses = <<>>
    /\ segDone = FALSE
    /\ segRecords = <<>>

\* segment_clauses is not under study
SegIdle ==
    /\ segText = <<>>
    /\ segClauses = <<>>
    /\ segDone = FALSE
    /\ segRecords = <<>>

SegmentClauses ==
    /\ ~segDone
    /\ segClauses' = segment_clauses(segText)
    /\ segDone' = TRUE
    /\ UNCHANGED <<segText, segRecords>>

(***************************************************************************)
(* module3_clause_detection: the rule-based classifier                     *)
(***************************************************************************)
KwConfidentiality ==
    << <<"c","o","n","f","i","d","e","n","t","i","a","l">>,
       <<"c","o","n","f","i","d","e","n","t","i","a","l","i","t","y">>,
       <<"n","o","n","-","d","i","s","c","l","o","s","u","r","e">>,
       <<"n","d","a">>,
       <<"p","r","o","p","r","i","e","t","a","r","y"," ","i","n","f","o","r","m","a","t","i","o","n">> >>

KwTermination ==
    << <<"t","e","r","m","i","n","a","t","e">>,
       <<"t","e","r","m","i","n","a","t","i","o","n">>,
       <<"e","x","p","i","r","e">>,
       <<"e","n","d"," ","o","f"," ","c","o","n","t","r","a","c","t">>,
       <<"b","r","e","a","c","h">>,
       <<"c","a","n","c","e","l">> >>

KwIndemnity ==
    << <<"i","n","d","e","m","n","i","f","y">>,
       <<"i","n","d","e","m","n","i","t","y">>,
       <<"h","o","l","d"," ","h","a","r","m","l","e","s","s">>,
       <<"d","e","f","e","n","d"," ","a","g","a","i","n","s","t">> >>

KwDisputeResolution ==
    << <<"a","r","b","i","t","r","a","t","i","o","n">>,
       <<"d","i","s","p","u","t","e">>,
       <<"m","e","d","i","a","t","i","o","n">>,
       <<"c","o","u","r","t">>,
       <<"s","o","l","e"," ","a","r","b","i","t","r","a","t","o","r">>,
       <<"l","i","t","i","g","a","t","i","o","n">> >>

KwGoverningLaw ==
    << <<"g","o","v","e","r","n","i","n","g"," ","l","a","w">>,
       <<"l","a","w","s"," ","i","n"," ","f","o","r","c","e">>,
       <<"l","a","w"," ","o","f"," ">>,
       <<"a","p","p","l","i","c","a","b","l","e"," ","l","a","w">> >>

KwPaymentTerms ==
    << <<"p","a","y","m","e","n","t">>,
       <<"f","e","e">>,
       <<"i","n","v","o","i","c","e">>,
       <<"c","o","m","p","e","n","s","a","t","i","o","n">>,
       <<"p","r","i","c","e">>,
       <<"r","e","m","u","n","e","r","a","t","i","o","n">>,
       <<"s","a","l","a","r","y">> >>

KwIntellectualProperty ==
    << <<"i","n","t","e","l","l","e","c","t","u","a","l"," ","p","r","o","p","e","r","t","y">>,
       <<"c","o","p","y","r","i","g","h","t">>,
       <<"t","r","a","d","e","m","a","r","k">>,
       <<"p","a","t","e","n","t">>,
       <<"i","p"," ","r","i","g","h","t","s">>,
       <<"o","w","n","e","r","s","h","i","p">> >>

KwWarranties ==
    << <<"w","a","r","r","a","n","t","y">>,
       <<"w","a","r","r","a","n","t","i","e","s">>,
       <<"r","e","p","r","e","s","e","n","t">>,
       <<"g","u","a","r","a","n","t","e","e">>,
       <<"a","s","s","u","r","a","n","c","e">> >>

KwLimitationofLiability ==
    << <<"l","i","m","i","t","a","t","i","o","n"," ","o","f"," ","l","i","a","b","i","l","i","t","y">>,
       <<"l","i","m","i","t","e","d"," ","t","o">>,
       <<"a","g","g","r","e","g","a","t","e"," ","l","i","a","b","i","l","i","t","y">>,
       <<"c","o","n","s","e","q","u","e","n","t","i","a","l"," ","d","a","m","a","g","e","s">> >>

KwForceMajeure ==
    << <<"f","o","r","c","e"," ","m","a","j","e","u","r","e">>,
       <<"a","c","t"," ","o","f"," ","g","o","d">>,
       <<"n","a","t","u","r","a","l"," ","d","i","s","a","s","t","e","r">>,
       <<"u","n","f","o","r","e","s","e","e","n"," ","c","i","r","c","u","m","s","t","a","n","c","e","s">> >>

KwAssignment ==
    << <<"a","s","s","i","g","n","m","e","n","t">>,
       <<"t","r","a","n","s","f","e","r">>,
       <<"a","s","s","i","g","n"," ","r","i","g","h","t","s">>,
       <<"d","e","l","e","g","a","t","e">> >>

KwNonCompete ==
    << <<"n","o","n","-","c","o","m","p","e","t","e">>,
       <<"n","o","n"," ","c","o","m","p","e","t","e">>,
       <<"c","o","m","p","e","t","i","t","i","v","e">>,
       <<"s","o","l","i","c","i","t","a","t","i","o","n">>,
       <<"r","e","s","t","r","i","c","t","i","v","e"," ","c","o","v","e","n","a","n","t">> >>

KwSeverability ==
    << <<"s","e","v","e","r","a","b","i","l","i","t","y">>,
       <<"s","e","v","e","r","a","b","l","e">>,
       <<"i","n","v","a","l","i","d"," ","p","r","o","v","i","s","i","o","n">>,
       <<"u","n","e","n","f","o","r","c","e","a","b","l","e">> >>

KwAmendment ==
    << <<"a","m","e","n","d","m","e","n","t">>,
       <<"m","o","d","i","f","y">>,
       <<"m","o","d","i","f","i","c","a","t","i","o","n">>,
       <<"c","h","a","n","g","e">>,
       <<"v","a","r","i","a","t","i","o","n">> >>

KwNotice ==
    << <<"n","o","t","i","c","e">>,
       <<"n","o","t","i","f","i","c","a","t","i","o","n">>,
       <<"i","n","f","o","r","m">>,
       <<"w","r","i","t","t","e","n"," ","n","o","t","i","c","e">>,
       <<"e","m","a","i","l"," ","t","o">> >>

\* any(w in t for w in [...])
AnyIn(t, keywords) == \E k \in 1..Len(keywords) : Contains(t, keywords[k])

\* _rule_based_classify with the Termination rule tried before Confidentiality
_rule_based_classify_Swapped(text) ==
    LET t == Lower(text) IN
    IF AnyIn(t, KwTermination) THEN "Termination"
    ELSE IF AnyIn(t, KwConfidentiality) THEN "Confidentiality"
    ELSE IF AnyIn(t, KwIndemnity) THEN "Indemnity"
    ELSE IF AnyIn(t, KwDisputeResolution) THEN "Dispute Resolution"
    ELSE IF AnyIn(t, KwGoverningLaw) THEN "Governing Law"
    ELSE IF AnyIn(t, KwPaymentTerms) THEN "Payment Terms"
    ELSE IF AnyIn(t, KwIntellectualProperty) THEN "Intellectual Property"
    ELSE IF AnyIn(t, KwWarranties) THEN "Warranties"
    ELSE IF AnyIn(t, KwLimitationofLiability) THEN "Limitation of Liability"
    ELSE IF AnyIn(t, KwForceMajeure) THEN "Force Majeure"
    ELSE IF AnyIn(t, KwAssignment) THEN "Assignment"
    ELSE IF AnyIn(t, KwNonCompete) THEN "Non-Compete"
    ELSE IF AnyIn(t, KwSeverability) THEN "Severability"
    ELSE IF AnyIn(t, KwAmendment) THEN "Amendment"
    ELSE IF AnyIn(t, KwNotice) THEN "Notice"
    ELSE "Other"

_rule_based_classify(text) ==
    LET t == Lower(text) IN
    IF AnyIn(t, KwConfidentiality) THEN "Confidentiality"
    ELSE IF AnyIn(t, KwTermination) THEN "Termination"
    ELSE IF AnyIn(t, KwIndemnity) THEN "Indemnity"
    ELSE IF AnyIn(t, KwDisputeResolution) THEN "Dispute Resolution"
    ELSE IF AnyIn(t, KwGoverningLaw) THEN "Governing Law"
    ELSE IF AnyIn(t, KwPaymentTerms) THEN "Payment Terms"
    ELSE IF AnyIn(t, KwIntellectualProperty) THEN "Intellectual Property"
    ELSE IF AnyIn(t, KwWarranties) THEN "Warranties"
    ELSE IF AnyIn(t, KwLimitationofLiability) THEN "Limitation of Liability"
    ELSE IF AnyIn(t, KwForceMajeure) THEN "Force Majeure"
    ELSE IF AnyIn(t, KwAssignment) THEN "Assignment"
    ELSE IF AnyIn(t, KwNonCompete) THEN "Non-Compete"
    ELSE IF AnyIn(t, KwSeverability) THEN "Severability"
    ELSE IF AnyIn(t, KwAmendment) THEN "Amendment"
    ELSE IF AnyIn(t, KwNotice) THEN "Notice"
    ELSE "Other"

(***************************************************************************)
(* The rule-based classifier applied to bounded inputs                     *)
(***************************************************************************)
RuleChunks == <<
    <<"C","o","n","f","i","d","e","n","t","i","a","l">>,
    <<"t","e","r","m","i","n","a","t","e">>,
    <<"i","n","d","e","m","n","i","f","y">>,
    <<"c","o","u","r","t">>,
    <<"l","a","w"," ","o","f"," ">>,
    <<"f","e","e">>,
    <<"p","a","t","e","n","t">>,
    <<"w","a","r","r","a","n","t","y">>,
    <<"l","i","m","i","t","e","d"," ","t","o">>,
    <<"a","c","t"," ","o","f"," ","g","o","d">>,
    <<"t","r","a","n","s","f","e","r">>,
    <<"c","o","m","p","e","t","i","t","i","v","e">>,
    <<"s","e","v","e","r","a","b","l","e">>,
    <<"m","o","d","i","f","y">>,
    <<"N","O","T","I","C","E">>,
    <<" ">>,
    <<"x","y","z">> >>

\* the most pieces in one classified text
MaxRuleChunks == 2

RuleInputs == TextsFrom(RuleChunks, MaxRuleChunks)

RulesInit ==
    /\ rulesText \in RuleInputs
    /\ rulesLabel = "None"
    /\ rulesDone = FALSE

RuleBasedClassify ==
    /\ ~rulesDone
    /\ rulesLabel' = _rule_based_classify(rulesText)
    /\ rulesDone' = TRUE
    /\ UNCHANGED rulesText

\* _rule_based_classify is not under study
RulesIdle ==
    /\ rulesText = <<>>
    /\ rulesLabel = "None"
    /\ rulesDone = FALSE

(***************************************************************************)
(* module4_legal_terms                                                     *)
(***************************************************************************)
\* the dict _LEXICON in insertion order
_LEXICON == <<
    [keyword |-> <<"i","n","d","e","m","n","i","t","y">>,
     category |-> "Indemnity Clause"],
    [keyword |-> <<"i","n","d","e","m","n","i","f","y">>,
     category |-> "Indemnity Clause"],
    [keyword |-> <<"s","e","c","u","r","i","t","y"," ","d","e","p","o","s","i","t">>,
     category |-> "Payment Terms"],
    [keyword |-> <<"t","e","r","m","i","n","a","t","i","o","n">>,
     category |-> "Termination Clause"],
    [keyword |-> <<"a","r","b","i","t","r","a","t","i","o","n">>,
     category |-> "Dispute Resolution"],
    [keyword |-> <<"d","i","s","p","u","t","e"," ","r","e","s","o","l","u","t","i","o","n">>,
     category |-> "Dispute Resolution"],
    [keyword |-> <<"f","o","r","c","e"," ","m","a","j","e","u","r","e">>,
     category |-> "Force Majeure"],
    [keyword |-> <<"g","o","v","e","r","n","i","n","g"," ","l","a","w">>,
     category |-> "Governing Law"],
    [keyword |-> <<"w","a","r","r","a","n","t","y">>,
     category |-> "Warranty"],
    [keyword |-> <<"c","o","n","f","i","d","e","n","t","i","a","l">>,
     category |-> "Confidentiality"],
    [keyword |-> <<"i","n","t","e","l","l","e","c","t","u","a","l"," ","p","r","o","p","e","r","t","y">>,
     category |-> "IP Rights"],
    [keyword |-> <<"n","o","n","-","c","o","m","p","e","t","e">>,
     category |-> "Non-Compete"],
    [keyword |-> <<"s","e","v","e","r","a","b","i","l","i","t","y">>,
     category |-> "Severability"],
    [keyword |-> <<"a","m","e","n","d","m","e","n","t">>,
     category |-> "Amendment Rights"],
    [keyword |-> <<"a","s","s","i","g","n","m","e","n","t">>,
     category |-> "Assignment Rights"],
    [keyword |-> <<"l","i","a","b","i","l","i","t","y">>,
     category |-> "Liability"],
    [keyword |-> <<"d","a","m","a","g","e","s">>,
     category |-> "Damages"] >>

\* the dict _DEFINITIONS
_DEFINITIONS == <<
    [key |-> <<"i","n","d","e","m","n","i","t","y">>,
     definition |-> "A promise to protect someone from financial loss or legal liability"],
    [key |-> <<"i","n","d","e","m","n","i","f","y">>,
     definition |-> "To compensate or reimburse someone for loss or damage"],
    [key |-> <<"s","e","c","u","r","i","t","y"," ","d","e","p","o","s","i","t">>,
     definition |-> "Money held by one party as protection in case of damage or default"],
    [key |-> <<"t","e","r","m","i","n","a","t","i","o","n">>,
     definition |-> "The act of ending or canceling a contract or agreement"],
    [key |-> <<"a","r","b","i","t","r","a","t","i","o","n">>,
     definition |-> "Resolving a dispute outside of court with a neutral third party making the decision"],
    [key |-> <<"d","i","s","p","u","t","e"," ","r","e","s","o","l","u","t","i","o","n">>,
     definition |-> "Methods used to settle disagreements or conflicts"],
    [key |-> <<"f","o","r","c","e"," ","m","a","j","e","u","r","e">>,
     definition |-> "Unforeseeable circumstances that prevent someone from fulfilling a contract (like natural disasters)"],
    [key |-> <<"g","o","v","e","r","n","i","n","g"," ","l","a","w">>,
     definition |-> "The legal system and rules that apply to a contract"],
    [key |-> <<"t","h","e"," ","g","o","v","e","r","n","i","n","g"," ","l","a","w">>,
     definition |-> "The legal system and rules that apply to this contract"],
    [key |-> <<"w","a","r","r","a","n","t","y">>,
     definition |-> "A guarantee or promise about the quality or condition of something"],
    [key |-> <<"c","o","n","f","i","d","e","n","t","i","a","l">>,
     definition |-> "Information that must be kept private and not shared with others"],
    [key |-> <<"i","n","t","e","l","l","e","c","t","u","a","l"," ","p","r","o","p","e","r","t","y">>,
     definition |-> "Creations of the mind like inventions, designs, brand names, and artistic works"],
    [key |-> <<"n","o","n","-","c","o","m","p","e","t","e">>,
     definition |-> "An agreement not to compete with a business in the same industry or area"],
    [key |-> <<"s","e","v","e","r","a","b","i","l","i","t","y">>,
     definition |-> "If one part of a contract is invalid, the rest of the contract remains valid"],
    [key |-> <<"a","m","e","n","d","m","e","n","t">>,
     definition |-> "A formal change or addition to a contract or document"],
    [key |-> <<"a","s","s","i","g","n","m","e","n","t">>,
     definition |-> "Transferring rights or responsibilities from one party to another"],
    [key |-> <<"l","i","a","b","i","l","i","t","y">>,
     definition |-> "Legal responsibility for something, especially for costs or damages"],
    [key |-> <<"d","a","m","a","g","e","s">>,
     definition |-> "Money paid as compensation for loss or injury"],
    [key |-> <<"c","o","n","s","i","d","e","r","a","t","i","o","n">>,
     definition |-> "Something of value exchanged between parties in a contract"],
    [key |-> <<"b","r","e","a","c","h">>,
     definition |-> "Breaking or violating the terms of a contract"],
    [key |-> <<"c","o","v","e","n","a","n","t">>,
     definition |-> "A formal promise or agreement in a contract"],
    [key |-> <<"p","a","r","t","y">>,
     definition |-> "A person or organization involved in a contract or legal agreement"],
    [key |-> <<"e","f","f","e","c","t","i","v","e"," ","d","a","t","e">>,
     definition |-> "The date when a contract or agreement officially begins"],
    [key |-> <<"n","o","t","i","c","e">>,
     definition |-> "Formal communication or warning given to another party"],
    [key |-> <<"t","e","r","m","s"," ","a","n","d"," ","c","o","n","d","i","t","i","o","n","s">>,
     definition |-> "The detailed rules and requirements of an agreement"],
    [key |-> <<"a","g","r","e","e","m","e","n","t">>,
     definition |-> "A mutual understanding or arrangement between two or more parties"],
    [key |-> <<"o","b","l","i","g","a","t","i","o","n","s">>,
     definition |-> "Duties or responsibilities that must be fulfilled under a contract"],
    [key |-> <<"r","i","g","h","t","s">>,
     definition |-> "Legal entitlements or permissions granted by a contract"],
    [key |-> <<"d","e","f","a","u","l","t">>,
     definition |-> "Failure to fulfill an obligation or payment as required"],
    [key |-> <<"c","u","r","e"," ","p","e","r","i","o","d">>,
     definition |-> "Time given to fix a problem or breach before penalties apply"],
    [key |-> <<"r","e","m","e","d","i","e","s">>,
     definition |-> "Solutions or compensations available when a contract is broken"],
    [key |-> <<"w","a","i","v","e","r">>,
     definition |-> "Voluntarily giving up a right or claim"],
    [key |-> <<"e","x","e","c","u","t","i","o","n">>,
     definition |-> "The act of signing and making a contract legally binding"],
    [key |-> <<"r","e","p","r","e","s","e","n","t","a","t","i","o","n","s">>,
     definition |-> "Statements of fact made by one party to another"],
    [key |-> <<"w","a","r","r","a","n","t","i","e","s">>,
     definition |-> "Promises or guarantees about facts or conditions"],
    [key |-> <<"a","u","d","i","t">>,
     definition |-> "An official examination or review of records or accounts"],
    [key |-> <<"c","o","m","p","l","i","a","n","c","e">>,
     definition |-> "Following or obeying rules, laws, or requirements"],
    [key |-> <<"c","o","n","f","i","d","e","n","t","i","a","l","i","t","y">>,
     definition |-> "The state of keeping information secret or private"],
    [key |-> <<"d","i","s","c","l","o","s","u","r","e">>,
     definition |-> "Revealing or making information known"],
    [key |-> <<"e","x","c","l","u","s","i","v","i","t","y">>,
     definition |-> "The right to be the only one to do something in an agreement"],
    [key |-> <<"j","u","r","i","s","d","i","c","t","i","o","n">>,
     definition |-> "The authority of a court or legal system to hear a case"],
    [key |-> <<"l","i","m","i","t","a","t","i","o","n"," ","o","f"," ","l","i","a","b","i","l","i","t","y">>,
     definition |-> "A cap or restriction on the amount of damages that can be claimed"],
    [key |-> <<"l","i","q","u","i","d","a","t","e","d"," ","d","a","m","a","g","e","s">>,
     definition |-> "A predetermined amount of money to be paid if a contract is broken"],
    [key |-> <<"m","a","t","e","r","i","a","l"," ","b","r","e","a","c","h">>,
     definition |-> "A serious violation of a contract that affects its core purpose"],
    [key |-> <<"m","u","t","u","a","l"," ","c","o","n","s","e","n","t">>,
     definition |-> "Agreement by all parties involved"],
    [key |-> <<"n","o","n","-","d","i","s","c","l","o","s","u","r","e">>,
     definition |-> "An agreement to keep certain information confidential"],
    [key |-> <<"p","e","r","f","o","r","m","a","n","c","e">>,
     definition |-> "Completing the obligations required by a contract"],
    [key |-> <<"r","e","n","e","w","a","l">>,
     definition |-> "Extending a contract for an additional period"],
    [key |-> <<"r","e","p","r","e","s","e","n","t","a","t","i","o","n","s"," ","a","n","d"," ","w","a","r","r","a","n","t","i","e","s">>,
     definition |-> "Statements and promises made about facts and conditions"],
    [key |-> <<"s","e","r","v","i","c","e","s">>,
     definition |-> "Work or assistance provided under an agreement"],
    [key |-> <<"s","e","r","v","i","c","e">>,
     definition |-> "Work or assistance provided under an agreement"],
    [key |-> <<"t","h","e"," ","s","e","r","v","i","c","e"," ","p","r","o","v","i","d","e","r">>,
     definition |-> "The person or company providing work or assistance under the agreement"],
    [key |-> <<"s","e","r","v","i","c","e"," ","p","r","o","v","i","d","e","r">>,
     definition |-> "The person or company providing work or assistance"],
    [key |-> <<"p","a","r","t","i","e","s">>,
     definition |-> "People or organizations involved in a contract or legal agreement"],
    [key |-> <<"t","h","e"," ","e","f","f","e","c","t","i","v","e"," ","d","a","t","e">>,
     definition |-> "The specific date when a contract or agreement officially begins"],
    [key |-> <<"s","o","l","e"," ","d","i","s","c","r","e","t","i","o","n">>,
     definition |-> "The complete freedom to make a decision without needing approval"],
    [key |-> <<"s","u","b","l","i","c","e","n","s","e">>,
     definition |-> "Permission granted by a licensee to allow someone else to use licensed rights"],
    [key |-> <<"s","u","b","s","i","d","i","a","r","y">>,
     definition |-> "A company controlled by another company"],
    [key |-> <<"t","e","r","m">>,
     definition |-> "The length or duration of a contract"],
    [key |-> <<"t","h","i","r","d"," ","p","a","r","t","y">>,
     definition |-> "A person or entity not directly involved in an agreement"],
    [key |-> <<"t","i","t","l","e">>,
     definition |-> "Legal ownership of property or rights"],
    [key |-> <<"v","e","n","u","e">>,
     definition |-> "The location where a legal case will be heard"],
    [key |-> <<"v","o","i","d">>,
     definition |-> "Having no legal effect or validity"],
    [key |-> <<"v","o","i","d","a","b","l","e">>,
     definition |-> "Valid but can be legally canceled under certain conditions"],
    [key |-> <<"t","h","e"," ","s","t","a","t","e"," ","o","f"," ","u","t","t","a","r","a","k","h","a","n","d">>,
     definition |-> "A state in northern India, mentioned as the governing jurisdiction"],
    [key |-> <<"s","t","a","t","e">>,
     definition |-> "A political territory with its own government and laws"] >>

Letters == UpperLetters \cup LowerLetters

UpperChar(c) == IF c \in LowerLetters
                THEN CHOOSE u \in UpperLetters : LowerOf[u] = c
                ELSE c

\* str.title()
Title(s) ==
    [i \in 1..Len(s) |->
        IF i = 1 \/ s[i - 1] \notin Letters THEN UpperChar(s[i]) ELSE LowerChar(s[i])]

\* str.split()
RECURSIVE Split(_)
Split(s) ==
    LET starts == {i \in 1..Len(s) : s[i] \notin Whitespace}
    IN  IF starts = {} THEN <<>>
        ELSE LET a == Min(starts)
                 stops == {j \in a..Len(s) : s[j] \in Whitespace}
                 b == IF stops = {} THEN Len(s) + 1 ELSE Min(stops)
             IN  <<SubSeq(s, a, b - 1)>> \o Split(SubSeq(s, b, Len(s)))

\* a match at s of head, then a capture group, then one of the alternative
\* tails: the group's greedy extent and the end of the match
GroupMatch(head, group, tails, text, s) ==
    LET hs == MatchEnds(head, 1, text, s, FALSE)
        TailEnds(g) == UNION {MatchEnds(tails[j], 1, text, g, FALSE) : j \in 1..Len(tails)}
        gs == UNION {{g \in MatchEnds(group, 1, text, h, FALSE) : TailEnds(g) # {}} : h \in hs}
    IN  IF gs = {} THEN <<>>
        ELSE <<[start |-> s, groupStart |-> Max(hs), groupEnd |-> Max(gs),
                end |-> Max(TailEnds(Max(gs)))]>>

\* the leftmost such match from position `from` on, <<>> when there is none
RECURSIVE SearchGroupFrom(_, _, _, _, _)
SearchGroupFrom(head, group, tails, text, from) ==
    IF from > Len(text) THEN <<>>
    ELSE LET m == GroupMatch(head, group, tails, text, from)
         IN  IF m # <<>> THEN m
             ELSE SearchGroupFrom(head, group, tails, text, from + 1)

\* re.finditer for such a pattern
RECURSIVE FindIterGroup(_, _, _, _, _)
FindIterGroup(head, group, tails, text, from) ==
    LET m == SearchGroupFrom(head, group, tails, text, from)
    IN  IF m = <<>> THEN <<>>
        ELSE m \o FindIterGroup(head, group, tails, text, m[1].end)

\* ([A-Z][A-Za-z\s]{2,30})
MinTermTail == 2

MaxTermTail == 30

TermGroup == <<One(UpperLetters), Rep(Letters \cup Whitespace, MinTermTail, MaxTermTail)>>

\* ["\'] on either side of the group
QuoteChars == {"\"", "'"}

\* (?:\(hereinafter|shall mean|means|refers to) after \s*
DefinitionCues == <<
    <<AtLeast(Whitespace, 0)>> \o Lit(<<"(","h","e","r","e","i","n","a","f","t","e","r">>),
    <<AtLeast(Whitespace, 0)>> \o Lit(<<"s","h","a","l","l"," ","m","e","a","n">>),
    <<AtLeast(Whitespace, 0)>> \o Lit(<<"m","e","a","n","s">>),
    <<AtLeast(Whitespace, 0)>> \o Lit(<<"r","e","f","e","r","s"," ","t","o">>) >>

GenericDefinition == "Legal terminology used in contracts."

\* _DEFINITIONS.get(key, "Legal terminology used in contracts.")
DefinitionOf(key) ==
    LET hit == {i \in 1..Len(_DEFINITIONS) : _DEFINITIONS[i].key = key}
    IN  IF hit = {} THEN GenericDefinition ELSE _DEFINITIONS[Min(hit)].definition

\* `found` and `seen` before any stage ran
NoTerms == [found |-> <<>>, seen |-> {}]

\* found.append({...}); seen.add(key)
AppendTerm(acc, term, key, category) ==
    [found |-> Append(acc.found,
                      [term |-> term, category |-> category,
                       definition |-> DefinitionOf(key),
                       simplified_explanation |-> DefinitionOf(key)]),
     seen |-> acc.seen \cup {key}]

\* the body of the two regular-expression loops
RECURSIVE AddMatches(_, _, _, _)
AddMatches(ms, text, acc, i) ==
    IF i > Len(ms) THEN acc
    ELSE LET term == Strip(SubSeq(text, ms[i].groupStart, ms[i].groupEnd - 1))
             term_lower == Lower(term)
         IN  AddMatches(ms, text,
                        IF term_lower \notin acc.seen
                        THEN AppendTerm(acc, term, term_lower, "Defined Term")
                        ELSE acc,
                        i + 1)

\* the loop over quoted_pattern
QuotedStage(text, acc) ==
    AddMatches(FindIterGroup(<<One(QuoteChars)>>, TermGroup, << <<One(QuoteChars)>> >>, text, 1),
               text, acc, 1)

\* the loop over definition_pattern
DefinitionStage(text, acc) ==
    AddMatches(FindIterGroup(<<>>, TermGroup, DefinitionCues, text, 1), text, acc, 1)

\* the loop over _LEXICON without the test `keyword not in seen`
RECURSIVE LexiconLoop_NoSeenTest(_, _, _)
LexiconLoop_NoSeenTest(t, acc, i) ==
    IF i > Len(_LEXICON) THEN acc
    ELSE LET keyword == _LEXICON[i].keyword
         IN  LexiconLoop_NoSeenTest(t,
                         IF Contains(t, keyword)
                         THEN AppendTerm(acc, Title(keyword), keyword, _LEXICON[i].category)
                         ELSE acc,
                         i + 1)

\* the loop over _LEXICON
RECURSIVE LexiconLoop(_, _, _)
LexiconLoop(t, acc, i) ==
    IF i > Len(_LEXICON) THEN acc
    ELSE LET keyword == _LEXICON[i].keyword
         IN  LexiconLoop(t,
                         IF Contains(t, keyword) /\ keyword \notin acc.seen
                         THEN AppendTerm(acc, Title(keyword), keyword, _LEXICON[i].category)
                         ELSE acc,
                         i + 1)

LexiconStage(text, acc) == LexiconLoop(Lower(text), acc, 1)

\* the entity labels that give terms
TermEntityLabels == {"LAW", "ORG", "EVENT"}

\* f"{ent.label_} Entity"
EntityCategory(label) ==
    CASE label = "LAW" -> "LAW Entity"
      [] label = "ORG" -> "ORG Entity"
      [] label = "EVENT" -> "EVENT Entity"
      [] OTHER -> "Entity"

HasDuplicates(words) ==
    \E i, j \in 1..Len(words) : i < j /\ words[i] = words[j]

\* the loop over doc.ents, which ends after `processed` entities when an
\* exception is raised
RECURSIVE EntityLoop(_, _, _, _)
EntityLoop(ents, processed, acc, i) ==
    IF i > processed THEN acc
    ELSE LET ent_text == Strip(ents[i].text)
             ent_text_lower == Lower(ent_text)
             skip == \/ ents[i].label \notin TermEntityLabels
                     \/ \E p \in 1..Len(ent_text) : ent_text[p] \in QuoteChars
                     \/ HasDuplicates(Split(Lower(ent_text)))
         IN  EntityLoop(ents, processed,
                        IF ~skip /\ ent_text_lower \notin acc.seen
                        THEN AppendTerm(acc, ent_text, ent_text_lower,
                                        EntityCategory(ents[i].label))
                        ELSE acc,
                        i + 1)

\* the spaCy stage: ner.loaded is `_SPACY_NLP`, ner.ents what doc.ents
\* holds, ner.processed how many of them the loop got through
EntityStage(ner, acc) ==
    IF ner.loaded THEN EntityLoop(ner.ents, ner.processed, acc, 1) ELSE acc

\* text[:5000]
EntityPrefixLen == 5000

\* the three stages with the lexicon loop moved before the two
\* regular-expression loops
RegexAndLexiconStages_LexiconFirst(text) ==
    DefinitionStage(text, QuotedStage(text, LexiconStage(text, NoTerms)))

\* the quoted, definition and lexicon stages
RegexAndLexiconStages(text) ==
    LexiconStage(text, DefinitionStage(text, QuotedStage(text, NoTerms)))

extract_legal_terms(text, ner) ==
    IF text = <<>> \/ Strip(text) = <<>> THEN <<>>
    ELSE EntityStage(ner, RegexAndLexiconStages(text)).found

(***************************************************************************)
(* The term extractor applied to bounded inputs                            *)
(***************************************************************************)
TermChunks == <<
    <<"\"","E","f","f","e","c","t","i","v","e"," ","D","a","t","e","\"">>,
    <<"'","I","n","d","e","m","n","i","t","y","'">>,
    <<"I","n","d","e","m","n","i","t","y"," ","m","e","a","n","s">>,
    <<"i","n","d","e","m","n","i","t","y">>,
    <<"A","c","m","e"," ","C","o","r","p"," ","s","h","a","l","l"," ","m","e","a","n">>,
    <<"t","e","r","m","i","n","a","t","i","o","n">>,
    <<"A","c","m","e"," ">>,
    <<"\"","A","b","\"">> >>

\* the most pieces in one scanned text
MaxTermChunks == 2

TermInputs == TextsFrom(TermChunks, MaxTermChunks)

\* what the entity recogniser may report
EntityCandidates == {
    [text |-> <<"I","n","d","e","m","n","i","t","y">>, label |-> "LAW"],
    [text |-> <<"A","c","m","e"," ","C","o","r","p">>, label |-> "ORG"],
    [text |-> <<"A","c","m","e"," ","A","c","m","e">>, label |-> "ORG"],
    [text |-> <<"E","f","f","e","c","t","i","v","e"," ","D","a","t","e">>, label |-> "EVENT"],
    [text |-> <<"A","c","m","e">>, label |-> "PERSON"] }

\* the most entities in one document
MaxEntities == 2

\* the runs of the entity recogniser on a text: not loaded, or up to MaxEntities
\* spans of the first 5000 characters, with the loop over them completed or cut
\* short by an exception
NerRuns(text) ==
    LET prefix == Prefix(text, EntityPrefixLen)
        present == {e \in EntityCandidates : Contains(prefix, e.text)}
        lists == UNION {[1..n -> present] : n \in 0..MaxEntities}
    IN  {[loaded |-> FALSE, ents |-> <<>>, processed |-> 0]}
        \cup {[loaded |-> TRUE, ents |-> es, processed |-> k] :
                 es \in lists, k \in 0..MaxEntities}

NoNerRun == [loaded |-> FALSE, ents |-> <<>>, processed |-> 0]

TermsInit ==
    /\ termText \in TermInputs
    /\ termAcc = NoTerms
    /\ termNer = NoNerRun
    /\ termFound = <<>>
    /\ termPc = "start"

\* extract_legal_terms up to the spaCy stage: the early return, or the
\* quoted, definition and lexicon stages
ExtractRegexAndLexicon ==
    /\ termPc = "start"
    /\ IF termText = <<>> \/ Strip(termText) = <<>>
       THEN /\ termPc' = "done"
            /\ UNCHANGED termAcc
       ELSE /\ termPc' = "ner"
            /\ termAcc' = RegexAndLexiconStages(termText)
    /\ UNCHANGED <<termText, termNer, termFound>>

\* extract_legal_terms from the spaCy stage to its return
ExtractEntities ==
    /\ termPc = "ner"
    /\ \E ner \in NerRuns(termText) :
          /\ ner.processed <= Len(ner.ents)
          /\ termNer' = ner
          /\ termFound' = EntityStage(ner, termAcc).found
    /\ termPc' = "done"
    /\ UNCHANGED <<termText, termAcc>>

TermDone == termPc = "done"

\* extract_legal_terms is not under study
TermsIdle ==
    /\ termText = <<>>
    /\ termAcc = NoTerms
    /\ termNer = NoNerRun
    /\ termFound = <<>>
    /\ termPc = "start"

(***************************************************************************)
(* module3_clause_detection: the classifier model and detect_clause_type   *)
(***************************************************************************)
CLAUSE_LABELS == <<
    "Confidentiality", "Termination", "Indemnity", "Dispute Resolution",
    "Governing Law", "Payment Terms", "Intellectual Property", "Warranties",
    "Limitation of Liability", "Force Majeure", "Assignment", "Non-Compete",
    "Severability", "Amendment", "Notice">>

\* what a from_pretrained or pipeline construction does
LoadOutcomes == {"ok", "raise"}

\* _load_model on the globals cls = [model, tokenizer]: the new globals, the
\* returned value and whether the constructions were started
_load_model(cls, hasTransformers, outcome) ==
    IF ~hasTransformers
    THEN [model |-> cls.model, tokenizer |-> cls.tokenizer,
          ret |-> FALSE, built |-> 0]
    ELSE IF outcome = "ok"
    THEN [model |-> "model", tokenizer |-> "tokenizer", ret |-> TRUE, built |-> 1]
    ELSE [model |-> "None", tokenizer |-> "None", ret |-> FALSE, built |-> 1]

ensure_model_loaded(cls, hasTransformers, outcome) ==
    _load_model(cls, hasTransformers, outcome)

\* what the model does with one text: it raises, or its argmax is `predicted`
Inferences ==
    {[raised |-> TRUE, predicted |-> 0]}
        \cup {[raised |-> FALSE, predicted |-> p] : p \in 0..(Len(CLAUSE_LABELS) - 1)}

Blank(text) == text = <<>> \/ Strip(text) = <<>>

\* the inferences a call can meet: the model runs only at lines 90-95
InferencesFor(text, model, tokenizer) ==
    IF ~Blank(text) /\ model # "None" /\ tokenizer # "None"
    THEN Inferences
    ELSE {[raised |-> FALSE, predicted |-> 0]}

\* the mutant of detect_clause_type: "Other" when inference raises
detect_clause_type_OtherOnError(text, model, tokenizer, inference) ==
    IF Blank(text) THEN "Other"
    ELSE IF model # "None" /\ tokenizer # "None"
    THEN IF inference.raised
         THEN "Other"
         ELSE CLAUSE_LABELS[inference.predicted + 1]
    ELSE _rule_based_classify(text)

detect_clause_type(text, model, tokenizer, inference) ==
    IF Blank(text) THEN "Other"
    ELSE IF model # "None" /\ tokenizer # "None"
    THEN IF inference.raised
         THEN _rule_based_classify(text)
         ELSE CLAUSE_LABELS[inference.predicted + 1]
    ELSE _rule_based_classify(text)

(***************************************************************************)
(* module5_language_simplification: the paraphraser and simplify_text      *)
(***************************************************************************)
\* the mutant of ensure_simplifier_loaded: no test of _load_attempted
ensure_simplifier_loaded_NoGuard(smp, hasHF, outcome) ==
    IF ~hasHF
    THEN [simplifier |-> smp.simplifier, attempted |-> TRUE,
          ret |-> FALSE, built |-> 0]
    ELSE IF outcome = "ok"
    THEN [simplifier |-> "pipeline", attempted |-> TRUE, ret |-> TRUE, built |-> 1]
    ELSE [simplifier |-> "None", attempted |-> TRUE, ret |-> FALSE, built |-> 1]

\* ensure_simplifier_loaded on the globals smp = [simplifier, attempted]: the
\* new globals, the returned value and whether pipeline(...) was called
ensure_simplifier_loaded(smp, hasHF, outcome) ==
    IF smp.attempted
    THEN [simplifier |-> smp.simplifier, attempted |-> TRUE,
          ret |-> smp.simplifier # "None", built |-> 0]
    ELSE IF ~hasHF
    THEN [simplifier |-> smp.simplifier, attempted |-> TRUE,
          ret |-> FALSE, built |-> 0]
    ELSE IF outcome = "ok"
    THEN [simplifier |-> "pipeline", attempted |-> TRUE, ret |-> TRUE, built |-> 1]
    ELSE [simplifier |-> "None", attempted |-> TRUE, ret |-> FALSE, built |-> 1]

Levels == {"basic", "intermediate", "advanced"}

\* simplify_text line 75: len(text.split()) > 10
WordThreshold == 10

\* simplify_text line 71
NeedsAutoLoad(smp, hasHF) ==
    hasHF /\ smp.simplifier = "None" /\ ~smp.attempted

\* the test of line 75 without its first conjunct
TakesParaphraserPath_AnySimplifier(text, simplifier) ==
    Len(Split(text)) > WordThreshold

\* simplify_text line 75
TakesParaphraserPath(text, simplifier) ==
    simplifier # "None" /\ Len(Split(text)) > WordThreshold

Summary == <<"W","e"," ","p","a","y",".">>

\* what the paraphraser path can do with a text: raise out of the sentence
\* loop, or return the space-joined sentences
AiRuns(text) ==
    {[raised |-> TRUE, joined |-> <<>>],
     [raised |-> FALSE, joined |-> Summary],
     [raised |-> FALSE, joined |-> text]}

\* simplify_text lines 76-136, by its result
ParaphraserPath(text, level, ai) ==
    IF ai.raised THEN text ELSE ai.joined

\* the construction outcomes a simplify_text call can meet: pipeline(...) is
\* called only from line 73
LoadOutcomesFor(text, smp, hasHF) ==
    IF ~Blank(text) /\ NeedsAutoLoad(smp, hasHF) THEN LoadOutcomes ELSE {"ok"}

\* the paraphraser runs a simplify_text call can meet
AiRunsFor(text, smp, hasHF, outcome) ==
    IF /\ ~Blank(text)
       /\ TakesParaphraserPath(
              text,
              IF NeedsAutoLoad(smp, hasHF)
              THEN ensure_simplifier_loaded(smp, hasHF, outcome).simplifier
              ELSE smp.simplifier)
    THEN AiRuns(text)
    ELSE {[raised |-> FALSE, joined |-> text]}

\* simplify_text on the globals smp: the returned text, the new globals,
\* whether pipeline(...) was called and whether the paraphraser path was taken
simplify_text(text, level, smp, hasHF, outcome, ai) ==
    IF Blank(text)
    THEN [ret |-> text, simplifier |-> smp.simplifier,
          attempted |-> smp.attempted, built |-> 0, path |-> FALSE]
    ELSE LET loaded == IF NeedsAutoLoad(smp, hasHF)
                       THEN ensure_simplifier_loaded(smp, hasHF, outcome)
                       ELSE [simplifier |-> smp.simplifier,
                             attempted |-> smp.attempted,
                             ret |-> FALSE, built |-> 0]
             path == TakesParaphraserPath(text, loaded.simplifier)
         IN  [ret |-> IF path THEN ParaphraserPath(text, level, ai) ELSE text,
              simplifier |-> loaded.simplifier,
              attempted |-> loaded.attempted,
              built |-> loaded.built,
              path |-> path]

(***************************************************************************)
(* module1_document_ingestion.extract_text                                 *)
(***************************************************************************)
\* the concatenation of a sequence of texts
RECURSIVE Concat(_)
Concat(texts) ==
    IF texts = <<>> THEN <<>> ELSE Head(texts) \o Concat(Tail(texts))

\* sep.join(texts)
RECURSIVE Join(_, _)
Join(sep, texts) ==
    IF texts = <<>> THEN <<>>
    ELSE IF Len(texts) = 1 THEN texts[1]
    ELSE texts[1] \o sep \o Join(sep, Tail(texts))

\* text.startswith(prefix)
StartsWith(text, prefix) ==
    Len(text) >= Len(prefix) /\ SubSeq(text, 1, Len(prefix)) = prefix

ErrorMarker == <<"[","E","R","R","O","R","]">>

\* a stored file is [unreadable, error, parts]: the library raises `error` on
\* it, or gives its pages (PDF) or paragraphs (DOCX)
extract_text_from_pdf(file) ==
    IF file.unreadable
    THEN <<"[","E","R","R","O","R","]"," ","C","o","u","l","d"," ","n","o","t"," ","e","x","t","r","a","c","t"," ","P","D","F",":"," ">> \o file.error
    ELSE Strip(Concat(file.parts))

RECURSIVE DocxText(_)
DocxText(paragraphs) ==
    IF paragraphs = <<>> THEN <<>>
    ELSE (IF Strip(Head(paragraphs)) # <<>>
          THEN Strip(Head(paragraphs)) \o <<"\n">>
          ELSE <<>>) \o DocxText(Tail(paragraphs))

extract_text_from_docx(file) ==
    IF file.unreadable
    THEN <<"[","E","R","R","O","R","]"," ","C","o","u","l","d"," ","n","o","t"," ","e","x","t","r","a","c","t"," ","D","O","C","X",":"," ">> \o file.error
    ELSE Strip(DocxText(file.parts))

\* extract_text on a path with extension ext (lower-cased, line 34)
extract_text(exists, ext, file) ==
    IF ~exists
    THEN <<"[","E","R","R","O","R","]"," ","F","i","l","e"," ","n","o","t"," ","f","o","u","n","d",".">>
    ELSE IF ext = ".pdf" THEN extract_text_from_pdf(file)
    ELSE IF ext = ".docx" THEN extract_text_from_docx(file)
    ELSE <<"[","E","R","R","O","R","]"," ","U","n","s","u","p","p","o","r","t","e","d"," ","f","i","l","e"," ","t","y","p","e","."," ","O","n","l","y"," ","P","D","F"," ","a","n","d"," ","D","O","C","X"," ","a","r","e"," ","s","u","p","p","o","r","t","e","d",".">>

(***************************************************************************)
(* module2_text_preprocessing.clean_text and preprocess_contract_text      *)
(***************************************************************************)
\* the keys of quote_map as the source file spells them: the double quote
\* twice, and the triple-quoted string of lines 37-38
QuoteMap == <<
    [src |-> <<"\"">>, replacement |-> <<"\"">>],
    [src |-> <<":"," ","\"","'","\"",",","\n"," "," "," "," "," "," "," "," ">>, replacement |-> <<"'">>]>>

\* text.replace(old, new)
Replace(text, old, new) == ReSub(Lit(old), new, text, FALSE)

RECURSIVE ApplyQuoteMap(_, _)
ApplyQuoteMap(text, i) ==
    IF i > Len(QuoteMap) THEN text
    ELSE The({ApplyQuoteMap(replaced, i + 1) :
              replaced \in {Replace(text, QuoteMap[i].src, QuoteMap[i].replacement)}})

\* clean_text with line 32 replacing whitespace two characters at a time
clean_text_CollapsePairs(text) ==
    The({Strip(quoted) :
         quoted \in {ApplyQuoteMap(collapsed, 1) :
         collapsed \in {ReSub(<<One(Whitespace), One(Whitespace)>>, <<" ">>, kept, FALSE) :
         kept \in {ReSub(<<One({"\r", "\f", "VT"})>>, <<>>, spaced, FALSE) :
         spaced \in {Replace(text, <<"NBSP">>, <<" ">>)}}}}})

clean_text(text) ==
    The({Strip(quoted) :
         quoted \in {ApplyQuoteMap(collapsed, 1) :
         collapsed \in {ReSub(<<AtLeast(Whitespace, 1)>>, <<" ">>, kept, FALSE) :
         kept \in {ReSub(<<One({"\r", "\f", "VT"})>>, <<>>, spaced, FALSE) :
         spaced \in {Replace(text, <<"NBSP">>, <<" ">>)}}}}})

\* preprocess_clause without the sentences and entities of the clause
preprocess_clause(clause_text) ==
    [raw_text |-> clause_text, cleaned_text |-> clean_text(clause_text)]

\* preprocess_contract_text segmenting the raw text
preprocess_contract_text_SegmentRaw(raw_text) ==
    The({[i \in 1..Len(clauses) |-> preprocess_clause(clauses[i])] :
         clauses \in {segment_clauses(raw_text)}})

preprocess_contract_text(raw_text) ==
    The({[i \in 1..Len(clauses) |-> preprocess_clause(clauses[i])] :
         clauses \in {segment_clauses(cleaned_text) :
         cleaned_text \in {clean_text(raw_text)}}})

(***************************************************************************)
(* A sequential series of calls of the two modules' functions in one       *)
(* process                                                                 *)
(***************************************************************************)
CallTexts == {
    <<>>,
    <<" ">>,
    <<"n","d","a"," ","f","e","e">>,
    <<"w","e"," ","m","a","y"," ","e","n","d"," ","i","t"," ","i","f"," ","y","o","u"," ","d","o"," ","n","o","t"," ","p","a","y"," ","f","e","e","s">>,
    <<"w","e"," ","m","a","y"," ","e","n","d"," ","i","t"," ","i","f"," ","y","o","u"," ","d","o"," ","n","o","t"," ","p","a","y"," ","t","h","e"," ","f","e","e">>}

MaxCalls == 3

NoCall ==
    [op |-> "none", text |-> <<>>, level |-> "basic",
     inference |-> [raised |-> FALSE, predicted |-> 0],
     loaded |-> FALSE, afterRaise |-> FALSE, afterFailedInit |-> FALSE,
     cached |-> "unset", ok |-> FALSE, label |-> "", out |-> <<>>,
     built |-> 0, path |-> FALSE]

\* the globals right after the modules are imported
ModInit ==
    /\ _HAS_TRANSFORMERS \in BOOLEAN
    /\ _HAS_HF \in BOOLEAN
    /\ _model = "None"
    /\ _tokenizer = "None"
    /\ _simplifier = "None"
    /\ _load_attempted = FALSE
    /\ built = [classifier |-> 0, simplifier |-> 0]

\* the two modules are not under study
ModIdle ==
    /\ _HAS_TRANSFORMERS = FALSE
    /\ _HAS_HF = FALSE
    /\ _model = "None"
    /\ _tokenizer = "None"
    /\ _simplifier = "None"
    /\ _load_attempted = FALSE
    /\ built = [classifier |-> 0, simplifier |-> 0]

NoHistory ==
    [clsFailed |-> FALSE, clsBuiltAfterFailure |-> 0,
     inferenceRaised |-> FALSE, cached |-> "unset"]

CallsInit ==
    /\ lastCall = NoCall
    /\ ncalls = 0
    /\ hist = NoHistory

CallsIdle ==
    /\ lastCall = NoCall
    /\ ncalls = 0
    /\ hist = NoHistory

Cls == [model |-> _model, tokenizer |-> _tokenizer]

Smp == [simplifier |-> _simplifier, attempted |-> _load_attempted]

\* the outcome of the first load attempt of the paraphraser, once made
CachedAfter(attempted, simplifier) ==
    IF hist.cached # "unset" THEN hist.cached
    ELSE IF attempted THEN simplifier
    ELSE "unset"

CallEnsureModelLoaded ==
    /\ ncalls < MaxCalls
    /\ \E outcome \in (IF _HAS_TRANSFORMERS THEN LoadOutcomes ELSE {"ok"}) :
          LET r == ensure_model_loaded(Cls, _HAS_TRANSFORMERS, outcome)
          IN  /\ _model' = r.model
              /\ _tokenizer' = r.tokenizer
              /\ built' = [built EXCEPT !.classifier = @ + r.built]
              /\ lastCall' = [NoCall EXCEPT !.op = "ensure_model_loaded",
                                            !.afterFailedInit = hist.clsFailed,
                                            !.ok = r.ret,
                                            !.built = r.built]
              /\ hist' = [hist EXCEPT
                              !.clsFailed = @ \/ ~r.ret,
                              !.clsBuiltAfterFailure =
                                  IF hist.clsFailed THEN @ + r.built ELSE @]
    /\ ncalls' = ncalls + 1
    /\ UNCHANGED <<_HAS_TRANSFORMERS, _HAS_HF, _simplifier, _load_attempted>>

CallDetectClauseType ==
    /\ ncalls < MaxCalls
    /\ \E text \in CallTexts :
       \E inference \in InferencesFor(text, _model, _tokenizer) :
          /\ lastCall' = [NoCall EXCEPT
                              !.op = "detect_clause_type",
                              !.text = text,
                              !.inference = inference,
                              !.loaded = (_model # "None" /\ _tokenizer # "None"),
                              !.afterRaise = hist.inferenceRaised,
                              !.afterFailedInit = hist.clsFailed,
                              !.label = detect_clause_type(text, _model, _tokenizer,
                                                           inference)]
          /\ hist' = [hist EXCEPT
                          !.inferenceRaised =
                              @ \/ (/\ ~Blank(text)
                                    /\ _model # "None" /\ _tokenizer # "None"
                                    /\ inference.raised)]
    /\ ncalls' = ncalls + 1
    /\ UNCHANGED modVars

CallEnsureSimplifierLoaded ==
    /\ ncalls < MaxCalls
    /\ \E outcome \in (IF _load_attempted \/ ~_HAS_HF THEN {"ok"} ELSE LoadOutcomes) :
          LET r == ensure_simplifier_loaded(Smp, _HAS_HF, outcome)
          IN  /\ _simplifier' = r.simplifier
              /\ _load_attempted' = r.attempted
              /\ built' = [built EXCEPT !.simplifier = @ + r.built]
              /\ lastCall' = [NoCall EXCEPT !.op = "ensure_simplifier_loaded",
                                            !.cached = hist.cached,
                                            !.ok = r.ret,
                                            !.built = r.built]
              /\ hist' = [hist EXCEPT
                              !.cached = CachedAfter(r.attempted, r.simplifier)]
    /\ ncalls' = ncalls + 1
    /\ UNCHANGED <<_HAS_TRANSFORMERS, _HAS_HF, _model, _tokenizer>>

CallSimplifyText ==
    /\ ncalls < MaxCalls
    /\ \E text \in CallTexts, level \in Levels :
       \E outcome \in LoadOutcomesFor(text, Smp, _HAS_HF) :
       \E ai \in AiRunsFor(text, Smp, _HAS_HF, outcome) :
          LET r == simplify_text(text, level, Smp, _HAS_HF, outcome, ai)
          IN  /\ _simplifier' = r.simplifier
              /\ _load_attempted' = r.attempted
              /\ built' = [built EXCEPT !.simplifier = @ + r.built]
              /\ lastCall' = [NoCall EXCEPT !.op = "simplify_text",
                                            !.text = text,
                                            !.level = level,
                                            !.cached = hist.cached,
                                            !.out = r.ret,
                                            !.built = r.built,
                                            !.path = r.path]
              /\ hist' = [hist EXCEPT
                              !.cached = CachedAfter(r.attempted, r.simplifier)]
    /\ ncalls' = ncalls + 1
    /\ UNCHANGED <<_HAS_TRANSFORMERS, _HAS_HF, _model, _tokenizer>>

(***************************************************************************)
(* Request threads of one process: each thread classifies and simplifies   *)
(* one clause, or calls a loader.  A step is one access to the globals.    *)
(***************************************************************************)
NThreads == 2

Threads == 1..NThreads

\* the clauses of the document the threads work on
Document == <<
    <<"w","e"," ","m","a","y"," ","e","n","d"," ","i","t"," ","i","f"," ","y","o","u"," ","d","o"," ","n","o","t"," ","p","a","y"," ","t","h","e"," ","f","e","e">>,
    <<"y","o","u"," ","m","u","s","t"," ","n","o","t"," ","t","e","l","l"," ","a","n","y"," ","o","n","e"," ","o","f"," ","t","h","e"," ","n","d","a"," ","w","e"," ","h","a","v","e"," ","m","a","d","e">>,
    <<"n","d","a"," ","f","e","e">>>>

JobKinds == {"clause", "ensure_simplifier_loaded", "ensure_model_loaded"}

\* the oracles of a clause job: the model's inference and the paraphraser's run
JobInferences ==
    {[raised |-> TRUE, predicted |-> 0], [raised |-> FALSE, predicted |-> 14]}

JobAiRuns ==
    {[raised |-> TRUE, joined |-> <<>>], [raised |-> FALSE, joined |-> Summary]}

Jobs(t) ==
    {[kind |-> "clause", text |-> Document[t], level |-> "basic",
      inference |-> i, ai |-> a] : i \in JobInferences, a \in JobAiRuns}
    \cup {[kind |-> k, text |-> <<>>, level |-> "basic",
           inference |-> [raised |-> FALSE, predicted |-> 0],
           ai |-> [raised |-> FALSE, joined |-> <<>>]] :
              k \in JobKinds \ {"clause"}}

FirstPc(kind) ==
    IF kind = "clause" THEN "detect"
    ELSE IF kind = "ensure_simplifier_loaded" THEN "ensure_check"
    ELSE "load_check"

\* how the process started: imported by a server (no startup code runs),
\* or run as app.py (line 598) or as main.py (lines 700-701)
Entries == {"import", "app", "main"}

\* the globals after the startup code of an entry point
Startup(entry, hasTransformers, hasHF, clsOutcome, smpOutcome) ==
    LET cls == IF entry = "import"
               THEN [model |-> "None", tokenizer |-> "None", ret |-> FALSE, built |-> 0]
               ELSE ensure_model_loaded([model |-> "None", tokenizer |-> "None"],
                                        hasTransformers, clsOutcome)
        smp == IF entry = "main"
               THEN ensure_simplifier_loaded(
                        [simplifier |-> "None", attempted |-> FALSE], hasHF, smpOutcome)
               ELSE [simplifier |-> "None", attempted |-> FALSE,
                     ret |-> FALSE, built |-> 0]
    IN  [model |-> cls.model, tokenizer |-> cls.tokenizer,
         simplifier |-> smp.simplifier, attempted |-> smp.attempted,
         built |-> [classifier |-> cls.built, simplifier |-> smp.built]]

NoThread ==
    [pc |-> "done", inner |-> FALSE, label |-> "", out |-> <<>>,
     ok |-> FALSE, obj |-> "None"]

ThreadsInit ==
    /\ _HAS_TRANSFORMERS \in BOOLEAN
    /\ _HAS_HF \in BOOLEAN
    /\ pipelineOutcome \in LoadOutcomes
    /\ \E entry \in Entries, clsOutcome \in LoadOutcomes :
          start = Startup(entry, _HAS_TRANSFORMERS, _HAS_HF, clsOutcome,
                          pipelineOutcome)
    /\ _model = start.model
    /\ _tokenizer = start.tokenizer
    /\ _simplifier = start.simplifier
    /\ _load_attempted = start.attempted
    /\ built = start.built
    /\ job \in [Threads -> UNION {Jobs(t) : t \in Threads}]
    /\ \A t \in Threads : job[t] \in Jobs(t)
    /\ th = [t \in Threads |-> [NoThread EXCEPT !.pc = FirstPc(job[t].kind)]]

\* the threads are not under study
ThreadsIdle ==
    /\ job = <<>>
    /\ th = <<>>
    /\ pipelineOutcome = "ok"
    /\ start = [model |-> "None", tokenizer |-> "None", simplifier |-> "None",
                attempted |-> FALSE,
                built |-> [classifier |-> 0, simplifier |-> 0]]

\* detect_clause_type, lines 84-100
Detect(t) ==
    /\ th[t].pc = "detect"
    /\ th' = [th EXCEPT ![t].label = detect_clause_type(job[t].text, _model,
                                                        _tokenizer, job[t].inference),
                        ![t].pc = "simplify_enter"]
    /\ UNCHANGED <<modVars, job, pipelineOutcome, start>>

\* simplify_text, lines 67-71: the early return and the auto-load test
SimplifyEnter(t) ==
    /\ th[t].pc = "simplify_enter"
    /\ th' = IF Blank(job[t].text)
             THEN [th EXCEPT ![t].out = job[t].text, ![t].pc = "done"]
             ELSE IF NeedsAutoLoad(Smp, _HAS_HF)
             THEN [th EXCEPT ![t].inner = TRUE, ![t].pc = "ensure_check"]
             ELSE [th EXCEPT ![t].pc = "simplify_use"]
    /\ UNCHANGED <<modVars, job, pipelineOutcome, start>>

\* where ensure_simplifier_loaded returns to
AfterEnsure(t) == IF th[t].inner THEN "simplify_use" ELSE "done"

\* ensure_simplifier_loaded, lines 31-32
EnsureCheck(t) ==
    /\ th[t].pc = "ensure_check"
    /\ th' = IF _load_attempted
             THEN [th EXCEPT ![t].ok = (_simplifier # "None"),
                             ![t].pc = AfterEnsure(t)]
             ELSE [th EXCEPT ![t].pc = "ensure_mark"]
    /\ UNCHANGED <<modVars, job, pipelineOutcome, start>>

\* ensure_simplifier_loaded, line 34
EnsureMark(t) ==
    /\ th[t].pc = "ensure_mark"
    /\ _load_attempted' = TRUE
    /\ th' = [th EXCEPT ![t].pc = "ensure_construct"]
    /\ UNCHANGED <<_HAS_TRANSFORMERS, _HAS_HF, _model, _tokenizer, _simplifier,
                   built, job, pipelineOutcome, start>>

\* ensure_simplifier_loaded, lines 36-44: the call of pipeline(...)
EnsureConstruct(t) ==
    /\ th[t].pc = "ensure_construct"
    /\ IF ~_HAS_HF
       THEN /\ th' = [th EXCEPT ![t].ok = FALSE, ![t].pc = AfterEnsure(t)]
            /\ UNCHANGED built
       ELSE /\ th' = [th EXCEPT ![t].obj = pipelineOutcome,
                                ![t].pc = "ensure_assign"]
            /\ built' = [built EXCEPT !.simplifier = @ + 1]
    /\ UNCHANGED <<_HAS_TRANSFORMERS, _HAS_HF, _model, _tokenizer, _simplifier,
                   _load_attempted, job, pipelineOutcome, start>>

\* ensure_simplifier_loaded, lines 44-50: the assignment of _simplifier
EnsureAssign(t) ==
    /\ th[t].pc = "ensure_assign"
    /\ _simplifier' = IF th[t].obj = "ok" THEN "pipeline" ELSE "None"
    /\ th' = [th EXCEPT ![t].ok = (th[t].obj = "ok"), ![t].pc = AfterEnsure(t)]
    /\ UNCHANGED <<_HAS_TRANSFORMERS, _HAS_HF, _model, _tokenizer,
                   _load_attempted, built, job, pipelineOutcome, start>>

\* simplify_text, lines 75-138
SimplifyUse(t) ==
    /\ th[t].pc = "simplify_use"
    /\ th' = [th EXCEPT
                 ![t].out = IF TakesParaphraserPath(job[t].text, _simplifier)
                            THEN ParaphraserPath(job[t].text, job[t].level, job[t].ai)
                            ELSE job[t].text,
                 ![t].pc = "done"]
    /\ UNCHANGED <<modVars, job, pipelineOutcome, start>>

\* _load_model, lines 34-36
LoadCheck(t) ==
    /\ th[t].pc = "load_check"
    /\ IF ~_HAS_TRANSFORMERS
       THEN /\ th' = [th EXCEPT ![t].ok = FALSE, ![t].pc = "done"]
            /\ UNCHANGED built
       ELSE /\ th' = [th EXCEPT ![t].pc = "load_tokenizer"]
            /\ built' = [built EXCEPT !.classifier = @ + 1]
    /\ UNCHANGED <<_HAS_TRANSFORMERS, _HAS_HF, _model, _tokenizer, _simplifier,
                   _load_attempted, job, pipelineOutcome, start>>

\* _load_model, line 37
LoadTokenizer(t) ==
    /\ th[t].pc = "load_tokenizer"
    /\ \E outcome \in LoadOutcomes :
          IF outcome = "ok"
          THEN /\ _tokenizer' = "tokenizer"
               /\ th' = [th EXCEPT ![t].pc = "load_model"]
          ELSE /\ th' = [th EXCEPT ![t].pc = "load_failed"]
               /\ UNCHANGED _tokenizer
    /\ UNCHANGED <<_HAS_TRANSFORMERS, _HAS_HF, _model, _simplifier,
                   _load_attempted, built, job, pipelineOutcome, start>>

\* _load_model, lines 38-39
LoadModel(t) ==
    /\ th[t].pc = "load_model"
    /\ \E outcome \in LoadOutcomes :
          IF outcome = "ok"
          THEN /\ _model' = "model"
               /\ th' = [th EXCEPT ![t].ok = TRUE, ![t].pc = "done"]
          ELSE /\ th' = [th EXCEPT ![t].pc = "load_failed"]
               /\ UNCHANGED _model
    /\ UNCHANGED <<_HAS_TRANSFORMERS, _HAS_HF, _tokenizer, _simplifier,
                   _load_attempted, built, job, pipelineOutcome, start>>

\* _load_model, lines 40-43
LoadFailed(t) ==
    /\ th[t].pc = "load_failed"
    /\ _model' = "None"
    /\ _tokenizer' = "None"
    /\ th' = [th EXCEPT ![t].ok = FALSE, ![t].pc = "done"]
    /\ UNCHANGED <<_HAS_TRANSFORMERS, _HAS_HF, _simplifier, _load_attempted,
                   built, job, pipelineOutcome, start>>

(***************************************************************************)
(* The request handlers process_document of main.py (/api/process) and of  *)
(* app.py (/process), one request after the other                          *)
(***************************************************************************)
\* Python's None where a text is expected
None == <<"None">>

NoFile == [unreadable |-> FALSE, error |-> <<>>, parts |-> <<>>]

Unreadable == [unreadable |-> TRUE, error |-> <<"b","a","d">>, parts |-> <<>>]

\* the requests: the uploaded file (its name, its lower-cased extension, what
\* the extraction library finds in it) and the form field simplification_level
Requests == {
    [present |-> FALSE, name |-> "", ext |-> "", file |-> NoFile, level |-> "basic"],
    [present |-> TRUE, name |-> "", ext |-> "", file |-> NoFile, level |-> "basic"],
    [present |-> TRUE, name |-> "c.pdf", ext |-> ".pdf", level |-> "basic",
     file |-> [unreadable |-> FALSE, error |-> <<>>,
               parts |-> <<<<"W","e"," ","s","h","a","l","l"," ","p","a","y"," ","t","h","e"," ","f","e","e"," ","w","h","e","n"," ","d","u","e",".","\n">>, <<"N","o","t","e",":"," ","y","o","u"," ","s","h","a","l","l"," ","k","e","e","p"," ","t","h","e"," ","n","d","a"," ","s","e","c","r","e","t"," ","f","o","r"," ","a","s"," ","l","o","n","g"," ","a","s"," ","w","e"," ","s","a","y"," ","s","o",".","\n">>>>]],
    [present |-> TRUE, name |-> "c.pdf", ext |-> ".pdf", level |-> "bogus",
     file |-> [unreadable |-> FALSE, error |-> <<>>,
               parts |-> <<<<"W","e"," ","s","h","a","l","l"," ","p","a","y"," ","t","h","e"," ","f","e","e"," ","w","h","e","n"," ","d","u","e",".","\n">>, <<"N","o","t","e",":"," ","y","o","u"," ","s","h","a","l","l"," ","k","e","e","p"," ","t","h","e"," ","n","d","a"," ","s","e","c","r","e","t"," ","f","o","r"," ","a","s"," ","l","o","n","g"," ","a","s"," ","w","e"," ","s","a","y"," ","s","o",".","\n">>>>]],
    [present |-> TRUE, name |-> "u.pdf", ext |-> ".pdf", file |-> Unreadable,
     level |-> "basic"],
    [present |-> TRUE, name |-> "e.pdf", ext |-> ".pdf", level |-> "basic",
     file |-> [unreadable |-> FALSE, error |-> <<>>, parts |-> <<<<" ", "\n">>>>]],
    [present |-> TRUE, name |-> "c.docx", ext |-> ".docx", level |-> "advanced",
     file |-> [unreadable |-> FALSE, error |-> <<>>,
               parts |-> <<<<" ","E","i","t","h","e","r"," ","p","a","r","t","y"," ","m","a","y"," ","c","a","n","c","e","l"," ","t","h","i","s"," ","d","e","a","l","."," ">>, <<" ">>, <<"T","h","e"," ","f","e","e"," ","i","s"," ","d","u","e"," ","i","n"," ","t","e","n"," ","d","a","y","s",".">>>>]],
    [present |-> TRUE, name |-> "u.docx", ext |-> ".docx", file |-> Unreadable,
     level |-> "intermediate"],
    [present |-> TRUE, name |-> "c.txt", ext |-> ".txt", level |-> "basic",
     file |-> [unreadable |-> FALSE, error |-> <<>>, parts |-> <<<<"T","h","e"," ","f","e","e"," ","i","s"," ","d","u","e"," ","i","n"," ","t","e","n"," ","d","a","y","s",".">>>>]],
    [present |-> TRUE, name |-> "c.exe", ext |-> ".exe", file |-> Unreadable,
     level |-> "basic"]}

\* the texts extract_text gives for the uploads, and what clean_text and
\* preprocess_contract_text make of each of them
RawTexts == {extract_text(TRUE, r.ext, r.file) : r \in Requests}

CleanedOf == [raw \in RawTexts |-> clean_text(raw)]

PreprocessedOf == [raw \in RawTexts |-> preprocess_contract_text(raw)]

\* the clause loop of the handlers, lines 537-539 of main.py and 381 of app.py
ClauseTypes(clauses, model, tokenizer, inference) ==
    [i \in 1..Len(clauses) |->
        detect_clause_type(clauses[i].cleaned_text, model, tokenizer, inference)]

\* the clause loop of the handlers, lines 548-550 of main.py and 382 of
\* app.py: the simplified texts and the globals of module5 after the loop
RECURSIVE SimplifyClauses(_, _, _, _, _, _, _)
SimplifyClauses(clauses, level, smp, hasHF, outcome, ai, acc) ==
    IF clauses = <<>>
    THEN [texts |-> acc, simplifier |-> smp.simplifier,
          attempted |-> smp.attempted, built |-> smp.built]
    ELSE LET r == simplify_text(Head(clauses).cleaned_text, level, smp, hasHF,
                                outcome, ai)
         IN  SimplifyClauses(Tail(clauses), level,
                             [simplifier |-> r.simplifier,
                              attempted |-> r.attempted,
                              built |-> smp.built + r.built],
                             hasHF, outcome, ai, Append(acc, r.ret))

\* a Counter that counts every label once
Counter_Distinct(elements) ==
    [x \in {elements[i] : i \in DOMAIN elements} |-> 1]

\* collections.Counter of a list (main.py lines 591-593, app.py line 402): the
\* number of occurrences of each element
Counter(elements) ==
    [x \in {elements[i] : i \in DOMAIN elements} |->
        Cardinality({i \in DOMAIN elements : elements[i] = x})]

ClauseRecords(clauses, types, simplified) ==
    [i \in 1..Len(clauses) |->
        [index |-> i,
         raw_text |-> clauses[i].raw_text,
         cleaned_text |-> clauses[i].cleaned_text,
         type |-> types[i],
         simplified |-> simplified[i]]]

\* what a request did when it stopped before processing any text
Stopped(handler, request, smp, status, message) ==
    [handler |-> handler, request |-> request, extracted |-> FALSE, raw |-> <<>>,
     level |-> "basic", normalized |-> {}, preprocessed |-> {},
     status |-> status, message |-> message, stored |-> FALSE,
     simplifier |-> smp.simplifier, attempted |-> smp.attempted, built |-> 0,
     doc |-> <<>>]

\* where the rest of a handler can raise: nowhere, in nltk's sent_tokenize
\* when preprocess_contract_text splits the clauses into sentences before the
\* clause loops, while the report is built and stored, or in the charts
\* main.py draws after it has stored the record
FailPoints == {"none", "sentences", "report", "charts"}

\* main.py process_document, lines 486-614, on the globals cls of module3
\* and smp of module5
process_document_main(request, cls, smp, hasHF, inference, outcome, ai, fails) ==
    IF ~request.present
    THEN Stopped("main", request, smp, "400", "No file uploaded")
    ELSE IF request.name = ""
    THEN Stopped("main", request, smp, "400", "No file selected")
    ELSE
      The({
          IF StartsWith(raw, ErrorMarker)
          THEN [Stopped("main", request, smp, "400", "raw_text")
                   EXCEPT !.extracted = TRUE, !.raw = raw]
          ELSE IF fails = "sentences"
          THEN [Stopped("main", request, smp, "500", "Processing error")
                   EXCEPT !.extracted = TRUE, !.raw = raw, !.preprocessed = {raw}]
          ELSE The({The({
            LET types == ClauseTypes(clauses, cls.model, cls.tokenizer, inference)
                doc == [document_title |-> request.name,
                        original_text |-> raw,
                        simplified_text_basic |-> Join(<<" ">>, loop.texts),
                        simplified_text_intermediate |-> None,
                        simplified_text_advanced |-> None,
                        clause_count |-> Len(clauses),
                        word_count |-> Len(Split(raw)),
                        clause_type_summary |-> Counter(types),
                        clauses |-> ClauseRecords(clauses, types, loop.texts)]
            IN  [handler |-> "main", request |-> request, extracted |-> TRUE,
                 raw |-> raw, level |-> "basic", normalized |-> {},
                 preprocessed |-> {raw},
                 status |-> IF fails = "none" THEN "200" ELSE "500",
                 message |-> IF fails = "none" THEN "" ELSE "Processing error",
                 stored |-> fails # "report",
                 simplifier |-> loop.simplifier, attempted |-> loop.attempted,
                 built |-> loop.built,
                 doc |-> IF fails # "report" THEN <<doc>> ELSE <<>>] :
            loop \in {SimplifyClauses(clauses, "basic",
                                      [simplifier |-> smp.simplifier,
                                       attempted |-> smp.attempted, built |-> 0],
                                      hasHF, outcome, ai, <<>>)}}) :
            clauses \in {PreprocessedOf[raw]}}) :
          raw \in {extract_text(TRUE, request.ext, request.file)}})

\* app.py lines 360-362 without the test of the enum
RequestedLevel_Unvalidated(request) == request.level

\* app.py lines 360-362: the form field simplification_level, or basic for a
\* value outside the enum
RequestedLevel(request) ==
    IF request.level \in Levels THEN request.level ELSE "basic"

\* app.py lines 461-466: the three level fields of the record, all None but
\* that of the level used
LevelFields(simplification_level, simplified_text) ==
    [l \in Levels |-> IF l = simplification_level THEN simplified_text ELSE None]

\* app.py process_document, lines 343-492
process_document_app(request, cls, smp, hasHF, inference, outcome, ai, fails) ==
    IF ~request.present \/ request.name = ""
    THEN Stopped("app", request, smp, "dashboard", "No file selected")
    ELSE IF request.ext \notin {".pdf", ".docx", ".txt"}
    THEN Stopped("app", request, smp, "dashboard", "Invalid file type")
    ELSE
      LET level == RequestedLevel(request)
      IN  The({
          IF Blank(raw)
          THEN [Stopped("app", request, smp, "dashboard",
                        "Could not extract text from the file")
                   EXCEPT !.extracted = TRUE, !.raw = raw, !.level = level]
          ELSE The({The({The({
            LET types == ClauseTypes(clauses, cls.model, cls.tokenizer, inference)
                level_fields == LevelFields(level, whole.ret)
                doc == [document_title |-> request.name,
                        original_text |-> raw,
                        simplified_text_basic |-> level_fields["basic"],
                        simplified_text_intermediate |-> level_fields["intermediate"],
                        simplified_text_advanced |-> level_fields["advanced"],
                        clause_count |-> Len(clauses),
                        word_count |-> Len(Split(raw)),
                        clause_type_summary |-> Counter(types),
                        clauses |-> ClauseRecords(clauses, types, loop.texts)]
            IN  [handler |-> "app", request |-> request, extracted |-> TRUE,
                 raw |-> raw, level |-> level, normalized |-> {raw},
                 preprocessed |-> {raw},
                 status |-> IF fails = "none" THEN "view_document" ELSE "dashboard",
                 message |-> IF fails = "none" THEN ""
                             ELSE "An error occurred during processing",
                 stored |-> fails = "none",
                 simplifier |-> whole.simplifier, attempted |-> whole.attempted,
                 built |-> loop.built + whole.built,
                 doc |-> IF fails = "none" THEN <<doc>> ELSE <<>>] :
            whole \in {simplify_text(processed_text, level,
                                     [simplifier |-> loop.simplifier,
                                      attempted |-> loop.attempted],
                                     hasHF, outcome, ai)}}) :
            loop \in {SimplifyClauses(clauses, level,
                                      [simplifier |-> smp.simplifier,
                                       attempted |-> smp.attempted, built |-> 0],
                                      hasHF, outcome, ai, <<>>)}}) :
            processed_text \in {CleanedOf[raw]},
            clauses \in {PreprocessedOf[raw]}}) :
          raw \in {extract_text(TRUE, request.ext, request.file)}})

MaxRequests == 1

NoRequest ==
    [handler |-> "none",
     request |-> [present |-> FALSE, name |-> "", ext |-> "", file |-> NoFile,
                  level |-> "basic"],
     extracted |-> FALSE, raw |-> <<>>, level |-> "basic", normalized |-> {},
     preprocessed |-> {}, status |-> "", message |-> "", stored |-> FALSE,
     simplifier |-> "None", attempted |-> FALSE, built |-> 0, doc |-> <<>>]

\* the process after the startup code of main.py (lines 700-701) or app.py
\* (line 598) has run
ServerInit ==
    /\ program \in {"main", "app"}
    /\ _HAS_TRANSFORMERS \in BOOLEAN
    /\ _HAS_HF \in BOOLEAN
    /\ \E clsOutcome \in LoadOutcomes, smpOutcome \in LoadOutcomes :
          LET g == Startup(program, _HAS_TRANSFORMERS, _HAS_HF, clsOutcome,
                           smpOutcome)
          IN  /\ _model = g.model
              /\ _tokenizer = g.tokenizer
              /\ _simplifier = g.simplifier
              /\ _load_attempted = g.attempted
              /\ built = g.built
    /\ docs = <<>>
    /\ lastRequest = NoRequest
    /\ nrequests = 0

\* the server is not under study
ServerIdle ==
    /\ program = "main"
    /\ docs = <<>>
    /\ lastRequest = NoRequest
    /\ nrequests = 0

\* the oracles a request can meet
RequestInferences ==
    IF _model # "None" /\ _tokenizer # "None"
    THEN JobInferences
    ELSE {[raised |-> FALSE, predicted |-> 0]}

RequestLoadOutcomes ==
    IF NeedsAutoLoad(Smp, _HAS_HF) THEN LoadOutcomes ELSE {"ok"}

RequestAiRuns(outcome) ==
    IF _simplifier # "None" \/ (NeedsAutoLoad(Smp, _HAS_HF) /\ outcome = "ok")
    THEN JobAiRuns
    ELSE {[raised |-> FALSE, joined |-> <<>>]}

\* the request's effects on the globals, the database and the response
Handled(r) ==
    /\ lastRequest' = r
    /\ docs' = docs \o r.doc
    /\ _simplifier' = r.simplifier
    /\ _load_attempted' = r.attempted
    /\ built' = [built EXCEPT !.simplifier = @ + r.built]
    /\ nrequests' = nrequests + 1
    /\ UNCHANGED <<program, _HAS_TRANSFORMERS, _HAS_HF, _model, _tokenizer>>

ProcessDocumentMain ==
    /\ program = "main"
    /\ nrequests < MaxRequests
    /\ \E request \in Requests, inference \in RequestInferences,
          outcome \in RequestLoadOutcomes,
          fails \in FailPoints :
       \E ai \in RequestAiRuns(outcome) :
          Handled(process_document_main(request, Cls, Smp, _HAS_HF, inference,
                                        outcome, ai, fails))

ProcessDocumentApp ==
    /\ program = "app"
    /\ nrequests < MaxRequests
    /\ \E request \in Requests, inference \in RequestInferences,
          outcome \in RequestLoadOutcomes,
          fails \in FailPoints \ {"sentences", "charts"} :
       \E ai \in RequestAiRuns(outcome) :
          Handled(process_document_app(request, Cls, Smp, _HAS_HF, inference,
                                       outcome, ai, fails))

(***************************************************************************)
(* Calls of clean_text, each on the value the call before it returned      *)
(***************************************************************************)
\* an argument of clean_text: a str, or None
Str(s) == [none |-> FALSE, s |-> s]

NoneArg == [none |-> TRUE, s |-> <<>>]

\* a call of clean_text: None has no method replace, and line 30 raises
\* AttributeError
CleanTextCall(arg) ==
    IF arg.none THEN [raised |-> TRUE, ret |-> <<>>]
    ELSE [raised |-> FALSE, ret |-> clean_text(arg.s)]

\* the pieces the cleaned strings are made of; "LDQ", "RDQ", "LSQ", "RSQ" are
\* the curly quotes U+201C, U+201D, U+2018, U+2019
CleanChunks ==
    {<<"a">>, <<" ">>, <<" ", "NBSP", " ">>, <<"\r">>, <<"\f">>, <<"VT">>,
     <<"LDQ">>, <<"RDQ">>, <<"LSQ">>, <<"RSQ">>}

CurlyQuotes == {"LDQ", "RDQ", "LSQ", "RSQ"}

MaxCleanChunks == 3

MaxCleanCalls == 2

RECURSIVE ChunkTexts(_)
ChunkTexts(n) ==
    IF n = 0 THEN {<<>>}
    ELSE ChunkTexts(n - 1) \cup {t \o c : t \in ChunkTexts(n - 1), c \in CleanChunks}

CleanArgs == {NoneArg} \cup {Str(t) : t \in ChunkTexts(MaxCleanChunks)}

CleanInit ==
    /\ cleanText \in CleanArgs
    /\ cleanOuts = <<>>

CleanIdle ==
    /\ cleanText = Str(<<>>)
    /\ cleanOuts = <<>>

\* clean_text called on the argument, then on what it returned
CleanText ==
    /\ Len(cleanOuts) < MaxCleanCalls
    /\ cleanOuts # <<>> => ~cleanOuts[Len(cleanOuts)].raised
    /\ cleanOuts' = Append(cleanOuts,
                           CleanTextCall(IF cleanOuts = <<>> THEN cleanText
                                         ELSE Str(cleanOuts[Len(cleanOuts)].ret)))
    /\ UNCHANGED cleanText

(***************************************************************************)
(* module5_language_simplification: the sentence loop of simplify_text     *)
(***************************************************************************)
\* str.isalnum() of one character
IsAlnum(c) == c \in Letters \cup Digits

\* str.capitalize()
Capitalize(s) ==
    [i \in 1..Len(s) |-> IF i = 1 THEN UpperChar(s[i]) ELSE LowerChar(s[i])]

\* the replacements dict of _aggressive_simplification, in insertion order
AggressiveReplacements ==
    <<[old |-> <<"a","f","o","r","e","m","e","n","t","i","o","n","e","d">>, new |-> <<"m","e","n","t","i","o","n","e","d">>],
      [old |-> <<"h","e","r","e","i","n">>, new |-> <<"h","e","r","e">>],
      [old |-> <<"t","h","e","r","e","o","f">>, new |-> <<"o","f"," ","i","t">>],
      [old |-> <<"w","h","e","r","e","b","y">>, new |-> <<"b","y"," ","w","h","i","c","h">>],
      [old |-> <<"h","e","r","e","u","n","d","e","r">>, new |-> <<"u","n","d","e","r"," ","t","h","i","s">>],
      [old |-> <<"t","h","e","r","e","t","o">>, new |-> <<"t","o"," ","i","t">>],
      [old |-> <<"p","u","r","s","u","a","n","t"," ","t","o">>, new |-> <<"a","c","c","o","r","d","i","n","g"," ","t","o">>],
      [old |-> <<"n","o","t","w","i","t","h","s","t","a","n","d","i","n","g">>, new |-> <<"d","e","s","p","i","t","e">>]>>

\* the replacements dict of _moderate_simplification, in insertion order
ModerateReplacements ==
    <<[old |-> <<"a","f","o","r","e","m","e","n","t","i","o","n","e","d">>, new |-> <<"m","e","n","t","i","o","n","e","d">>],
      [old |-> <<"h","e","r","e","i","n">>, new |-> <<"h","e","r","e">>],
      [old |-> <<"p","u","r","s","u","a","n","t"," ","t","o">>, new |-> <<"a","c","c","o","r","d","i","n","g"," ","t","o">>]>>

\* the loop over replacements.items(): each entry as written, then capitalized
RECURSIVE ApplyReplacements(_, _, _)
ApplyReplacements(text, replacements, k) ==
    IF k > Len(replacements) THEN text
    ELSE The({ApplyReplacements(capitalized, replacements, k + 1) :
              capitalized \in {Replace(lowered, Capitalize(replacements[k].old),
                                       Capitalize(replacements[k].new)) :
              lowered \in {Replace(text, replacements[k].old, replacements[k].new)}}})

\* words[:max_length] joined, with a full stop added after a letter or digit
Truncated(words, max_length) ==
    The({IF joined # <<>> /\ IsAlnum(joined[Len(joined)]) THEN joined \o <<".">> ELSE joined :
         joined \in {Join(<<" ">>, SubSeq(words, 1, max_length))}})

_aggressive_simplification(text, max_length) ==
    The({ApplyReplacements(IF Len(words) > max_length THEN Truncated(words, max_length)
                                                       ELSE text,
                           AggressiveReplacements, 1) :
         words \in {Split(text)}})

_moderate_simplification(text, max_length) ==
    ApplyReplacements(text, ModerateReplacements, 1)

\* max_sentence_length of lines 80-92
max_sentence_length(level) ==
    IF level = "basic" THEN 30 ELSE IF level = "intermediate" THEN 25 ELSE 20

\* lines 117-120: the post-processing of a level
PostProcessed(ai_output, level) ==
    IF level = "advanced"
    THEN _aggressive_simplification(ai_output, max_sentence_length(level))
    ELSE IF level = "intermediate"
    THEN _moderate_simplification(ai_output, max_sentence_length(level))
    ELSE ai_output

\* a sentence shorter than this, stripped, is not sent to the paraphraser
MinParaphrasedLen == 20

\* an output must be longer than this
MinOutputLen == 5

\* line 122: len(ai_output) <= len(sent) * 1.5 compared in halves
Accepted(ai_output, sent) ==
    Len(ai_output) > MinOutputLen /\ 2 * Len(ai_output) <= 3 * Len(sent)

\* what the paraphraser does with one sentence: it raises, it returns nothing
\* usable (an empty list, or no 'summary_text'), or it returns a summary
NoSummary == [kind |-> "none", summary_text |-> <<>>]

Raises == [kind |-> "raise", summary_text |-> <<>>]

Summarized(summary_text) == [kind |-> "summary", summary_text |-> summary_text]

\* lines 99-130: one sentence sent to the paraphraser
Paraphrased(sent, level, outcome) ==
    IF outcome.kind = "raise" THEN sent
    ELSE IF outcome.kind = "none" THEN sent
    ELSE The({IF Accepted(ai_output, sent) THEN ai_output ELSE sent :
              ai_output \in {PostProcessed(Strip(outcome.summary_text), level)}})

\* line 95
SentToParaphraser(sent) == Len(Strip(sent)) >= MinParaphrasedLen

\* the loop of lines 94-130 from sentence i on, stopping at the first sentence
\* on which the paraphraser raises
RECURSIVE SentenceLoop_StopAtRaise(_, _, _, _)
SentenceLoop_StopAtRaise(sentences, level, outcomes, i) ==
    IF i > Len(sentences) THEN <<>>
    ELSE IF ~SentToParaphraser(sentences[i])
    THEN <<sentences[i]>> \o SentenceLoop_StopAtRaise(sentences, level, outcomes, i + 1)
    ELSE IF outcomes[i].kind = "raise" THEN SubSeq(sentences, i, Len(sentences))
    ELSE <<Paraphrased(sentences[i], level, outcomes[i])>>
             \o SentenceLoop_StopAtRaise(sentences, level, outcomes, i + 1)

\* the loop of lines 94-130 from sentence i on, with a short sentence skipped
\* and not appended
RECURSIVE SentenceLoop_SkipShort(_, _, _, _)
SentenceLoop_SkipShort(sentences, level, outcomes, i) ==
    IF i > Len(sentences) THEN <<>>
    ELSE IF ~SentToParaphraser(sentences[i])
    THEN SentenceLoop_SkipShort(sentences, level, outcomes, i + 1)
    ELSE <<Paraphrased(sentences[i], level, outcomes[i])>>
             \o SentenceLoop_SkipShort(sentences, level, outcomes, i + 1)

\* the loop of lines 94-130 from sentence i on: simplified_sentences
RECURSIVE SentenceLoop(_, _, _, _)
SentenceLoop(sentences, level, outcomes, i) ==
    IF i > Len(sentences) THEN <<>>
    ELSE IF ~SentToParaphraser(sentences[i])
    THEN <<sentences[i]>> \o SentenceLoop(sentences, level, outcomes, i + 1)
    ELSE <<Paraphrased(sentences[i], level, outcomes[i])>>
             \o SentenceLoop(sentences, level, outcomes, i + 1)

\* nltk's sent_tokenize on text without abbreviations: a sentence ends at a
\* full stop, question mark or exclamation mark followed by whitespace and
\* another token; the last sentence ends where the right-stripped text ends
SentenceBreak == <<One({".", "?", "!"}), AtLeast(Whitespace, 1)>>

\* len(text.rstrip())
RStripLen(text) ==
    IF \A i \in 1..Len(text) : text[i] \in Whitespace THEN 0
    ELSE Max({i \in 1..Len(text) : text[i] \notin Whitespace})

RECURSIVE SentencesBetween(_, _, _, _)
SentencesBetween(text, breaks, k, from) ==
    IF k > Len(breaks) \/ breaks[k].end > Len(text)
    THEN <<SubSeq(text, from, RStripLen(text))>>
    ELSE <<SubSeq(text, from, breaks[k].start)>>
             \o SentencesBetween(text, breaks, k + 1, breaks[k].end)

sent_tokenize(text) ==
    The({SentencesBetween(text, breaks, 1, 1) :
         breaks \in {FindIter(SentenceBreak, text, 1, FALSE)}})

NoSimplification == [sentences |-> <<>>, simplified |-> <<>>, ret |-> <<>>, path |-> FALSE]

\* simplify_text lines 76-136: run.tokenized tells whether sent_tokenize
\* returned, run.outcomes what the paraphraser does with each sentence
SimplifiedSentences(text, level, run) ==
    IF ~run.tokenized
    THEN [sentences |-> <<>>, simplified |-> <<>>, ret |-> text, path |-> TRUE]
    ELSE The({The({[sentences |-> sentences, simplified |-> simplified,
                    ret |-> Join(<<" ">>, simplified), path |-> TRUE] :
                   simplified \in {SentenceLoop(sentences, level, run.outcomes, 1)}}) :
              sentences \in {sent_tokenize(text)}})

\* simplify_text lines 53-138 once the paraphraser is loaded: line 71 loads
\* nothing
simplify_text_loaded(text, level, simplifier, run) ==
    IF Blank(text) THEN [NoSimplification EXCEPT !.ret = text]
    ELSE IF TakesParaphraserPath(text, simplifier)
    THEN SimplifiedSentences(text, level, run)
    ELSE [NoSimplification EXCEPT !.ret = text]

\* the texts simplified
SimTexts ==
    {<<"Y","o","u"," ","s","h","a","l","l"," ","p","a","y"," ","t","h","e"," ","f","e","e","."," ","W","e"," ","m","a","y"," ","e","n","d"," ","t","h","i","s"," ","d","e","a","l"," ","a","t"," ","a","n","y"," ","t","i","m","e",".">>,
     <<"W","e"," ","a","g","r","e","e","."," ","Y","o","u"," ","s","h","a","l","l"," ","p","a","y"," ","t","h","e"," ","f","e","e"," ","w","h","e","n"," ","i","t"," ","i","s"," ","d","u","e"," ","t","o"," ","u","s",".">>,
     <<"Y","o","u"," ","s","h","a","l","l"," ","p","a","y"," ","t","h","e"," ","f","e","e",".">>}

\* the summaries the paraphraser can return
SummaryTexts ==
    {<<"P","a","y",".">>,
     <<" ","Y","o","u"," ","p","a","y"," ","t","h","e"," ","f","e","e","."," ">>,
     <<"h","e","r","e","i","n">>,
     <<"N","o","t","w","i","t","h","s","t","a","n","d","i","n","g"," ","t","h","i","s"," ","y","o","u"," ","p","a","y"," ","t","h","e"," ","f","e","e",".">>,
     <<"Y","o","u"," ","p","a","y"," ","t","h","e"," ","f","e","e"," ","p","u","r","s","u","a","n","t"," ","t","o"," ","i","t",".">>,
     <<"a"," ","b"," ","c"," ","d"," ","e"," ","f"," ","g"," ","h"," ","i"," ","j"," ","k"," ","l"," ","m"," ","n"," ","o"," ","p"," ","q"," ","r"," ","s"," ","t"," ","u"," ","v">>}

SentenceOutcomes == {NoSummary, Raises} \cup {Summarized(s) : s \in SummaryTexts}

\* the most sentences a text of SimTexts has
MaxSentences == 2

\* the paraphraser runs a text can meet: the paraphraser is called on the
\* sentences of line 95 only
SimRuns(text) ==
    IF Blank(text) \/ ~TakesParaphraserPath(text, "pipeline")
    THEN {[tokenized |-> TRUE, outcomes |-> [i \in 1..MaxSentences |-> NoSummary]]}
    ELSE {[tokenized |-> FALSE, outcomes |-> [i \in 1..MaxSentences |-> NoSummary]]}
         \cup {[tokenized |-> TRUE, outcomes |-> o] :
               o \in {o \in [1..MaxSentences -> SentenceOutcomes] :
                      \A i \in 1..MaxSentences :
                          (i > Len(sent_tokenize(text))
                           \/ ~SentToParaphraser(sent_tokenize(text)[i]))
                              => o[i] = NoSummary}}

\* the module once ensure_simplifier_loaded has constructed the paraphraser
SimplifierLoaded ==
    /\ _HAS_TRANSFORMERS = FALSE
    /\ _HAS_HF = TRUE
    /\ _model = "None"
    /\ _tokenizer = "None"
    /\ _simplifier = "pipeline"
    /\ _load_attempted = TRUE
    /\ built = [simplifier |-> 1, classifier |-> 0]

SimInit ==
    /\ simIn \in [text : SimTexts, level : Levels]
    /\ simRun = [tokenized |-> TRUE, outcomes |-> <<>>]
    /\ simRes = NoSimplification
    /\ simDone = FALSE

SimIdle ==
    /\ simIn = [text |-> <<>>, level |-> "basic"]
    /\ simRun = [tokenized |-> TRUE, outcomes |-> <<>>]
    /\ simRes = NoSimplification
    /\ simDone = TRUE

\* one call of simplify_text with the paraphraser loaded
SimplifyText ==
    /\ ~simDone
    /\ _simplifier # "None"
    /\ \E run \in SimRuns(simIn.text) :
          /\ simRun' = run
          /\ simRes' = simplify_text_loaded(simIn.text, simIn.level, _simplifier, run)
    /\ simDone' = TRUE
    /\ UNCHANGED simIn

(***************************************************************************)
(* readability_metrics and calculate_reading_ease                          *)
(***************************************************************************)
Vowels == {"a", "e", "i", "o", "u", "y"}

\* readability_metrics.count_syllables
count_syllables(word) ==
    IF Len(word) <= 1 THEN 1
    ELSE The({The({IF groups = {} THEN 1 ELSE Cardinality(groups) :
                   groups \in {{i \in 1..Len(w) :
                                   w[i] \in Vowels /\ (i = 1 \/ w[i - 1] \notin Vowels)}}}) :
              w \in {IF Lower(word)[Len(word)] = "e"
                     THEN SubSeq(Lower(word), 1, Len(word) - 1)
                     ELSE Lower(word)}})

\* str.isalpha()
IsAlpha(token) ==
    token # <<>> /\ \A i \in 1..Len(token) : token[i] \in Letters

\* the tokens of one whitespace-delimited piece of a sentence: a final comma,
\* question mark or exclamation mark is a token of its own, and so is the
\* full stop that ends the sentence
PieceTokens(piece, endsSentence) ==
    IF /\ Len(piece) > 1
       /\ \/ piece[Len(piece)] \in {",", "?", "!"}
          \/ piece[Len(piece)] = "." /\ endsSentence
    THEN <<SubSeq(piece, 1, Len(piece) - 1), <<piece[Len(piece)]>>>>
    ELSE <<piece>>

RECURSIVE SentenceTokens(_, _)
SentenceTokens(pieces, k) ==
    IF k > Len(pieces) THEN <<>>
    ELSE PieceTokens(pieces[k], k = Len(pieces)) \o SentenceTokens(pieces, k + 1)

RECURSIVE TokensOf(_, _)
TokensOf(sentences, k) ==
    IF k > Len(sentences) THEN <<>>
    ELSE The({SentenceTokens(pieces, 1) : pieces \in {Split(sentences[k])}})
             \o TokensOf(sentences, k + 1)

\* nltk's word_tokenize on words, hyphenated words, commas and the marks that
\* end a sentence: the Treebank tokens of each sentence of sent_tokenize
word_tokenize(text) ==
    The({TokensOf(sentences, 1) : sentences \in {sent_tokenize(text)}})

\* len([w for w in words if test(w)])
CountOf(tokens, Test(_)) == Cardinality({i \in 1..Len(tokens) : Test(tokens[i])})

IsComplex(w) == Len(w) > 2 /\ count_syllables(w) >= 3

\* readability_metrics.count_complex_words
count_complex_words(text) ==
    The({CountOf(words, IsComplex) : words \in {word_tokenize(Lower(text))}})

\* round(x, 2) of the fraction num/den, in hundredths: the nearest, or either
\* neighbour when the fraction lies halfway between two hundredths (the
\* floating-point value then lies on one side or the other)
Rounded(num, den) ==
    LET q == (100 * num) \div den
        r == (100 * num) % den
    IN  IF 2 * r < den THEN {q} ELSE IF 2 * r > den THEN {q + 1} ELSE {q, q + 1}

ZeroMetrics ==
    [raised |-> FALSE,
     ret |-> [sentence_count |-> 0, word_count |-> 0, avg_words_per_sentence |-> 0,
              complex_word_count |-> 0]]

\* a falsy or blank argument: `not text or len(text.strip()) == 0`
BlankArg(arg) == arg.none \/ arg.s = <<>> \/ Strip(arg.s) = <<>>

\* calculate_all_metrics without its try block
calculate_all_metrics_NoExcept(arg, tokenizers) ==
    IF BlankArg(arg) THEN {ZeroMetrics}
    ELSE IF tokenizers = "raise" THEN {[ZeroMetrics EXCEPT !.raised = TRUE]}
    ELSE The({The({
             {[raised |-> FALSE,
               ret |-> [sentence_count |-> Len(sentences),
                        word_count |-> nwords,
                        avg_words_per_sentence |-> avg,
                        complex_word_count |-> count_complex_words(arg.s)]] :
              avg \in IF Len(sentences) > 0 THEN Rounded(nwords, Len(sentences)) ELSE {0}} :
             nwords \in {CountOf(word_tokenize(arg.s), IsAlpha)}}) :
         sentences \in {sent_tokenize(arg.s)}})

\* readability_metrics.calculate_all_metrics: the results it can return, with
\* avg_words_per_sentence in hundredths; `tokenizers` tells whether nltk's
\* tokenizers return or raise
calculate_all_metrics(arg, tokenizers) ==
    IF BlankArg(arg) THEN {ZeroMetrics}
    ELSE IF tokenizers = "raise" THEN {ZeroMetrics}
    ELSE The({The({
             {[raised |-> FALSE,
               ret |-> [sentence_count |-> Len(sentences),
                        word_count |-> nwords,
                        avg_words_per_sentence |-> avg,
                        complex_word_count |-> count_complex_words(arg.s)]] :
              avg \in IF Len(sentences) > 0 THEN Rounded(nwords, Len(sentences)) ELSE {0}} :
             nwords \in {CountOf(word_tokenize(arg.s), IsAlpha)}}) :
         sentences \in {sent_tokenize(arg.s)}})

\* the score of line 167 as the fraction ScoreNum/ScoreDen, for w words,
\* s sentences and y syllables
ScoreNum(w, s, y) == 206835 * s * w - 1015 * w * w - 84600 * y * s

ScoreDen(w, s) == 1000 * s * w

\* round(score, 2) without the clamp
ClampedScore_Unclamped(num, den) == Rounded(num, den)

\* round(max(min(score, 100.0), 0.0), 2), in hundredths
ClampedScore(num, den) ==
    IF num >= 100 * den THEN {10000}
    ELSE IF num <= 0 THEN {0}
    ELSE Rounded(num, den)

\* the program's count_syllables: that of readability_metrics in main.py, the
\* library's syllables.estimate in app.py
OwnCounter == [library |-> FALSE, estimate |-> 0]

LibraryCounter(estimate) == [library |-> TRUE, estimate |-> estimate]

SyllablesOf(word, counter) ==
    IF counter.library THEN counter.estimate ELSE count_syllables(word)

RECURSIVE SyllableSum(_, _, _)
SyllableSum(words, counter, k) ==
    IF k > Len(words) THEN 0
    ELSE SyllablesOf(words[k], counter) + SyllableSum(words, counter, k + 1)

\* calculate_reading_ease of main.py and app.py: the values it can return,
\* in hundredths; `counter` is the program's count_syllables
calculate_reading_ease(arg, tokenizers, counter) ==
    IF BlankArg(arg) THEN {[raised |-> FALSE, ret |-> 0]}
    ELSE IF tokenizers = "raise" THEN {[raised |-> FALSE, ret |-> 0]}
    ELSE The({The({
             IF Len(sentences) = 0 \/ Len(words) = 0
             THEN {[raised |-> FALSE, ret |-> 0]}
             ELSE {[raised |-> FALSE, ret |-> v] :
                   v \in ClampedScore(
                             ScoreNum(Len(words), Len(sentences),
                                      SyllableSum(words, counter, 1)),
                             ScoreDen(Len(words), Len(sentences)))} :
             words \in {SelectSeq(word_tokenize(arg.s), IsAlpha)}}) :
         sentences \in {sent_tokenize(arg.s)}})

\* the pieces the measured texts are made of
MetChunks == <<
    <<"G","o","."," ">>,
    <<"p","a","y","m","e","n","t",","," ">>,
    <<"i","n","d","e","m","n","i","f","i","c","a","t","i","o","n"," ">>,
    <<"s","t","a","t","e","-","o","f","-","t","h","e","-","a","r","t"," ">>,
    <<" ">> >>

MaxMetChunks == 3

MetArgs == {NoneArg} \cup {Str(t) : t \in TextsFrom(MetChunks, MaxMetChunks)}

\* what the tokenizers of nltk can do in a call
TokenizerOutcomes == {"ok", "raise"}

\* the most syllables.estimate gives for a word
MaxEstimate == 4

MetFunctions == {"calculate_all_metrics", "main.calculate_reading_ease",
                 "app.calculate_reading_ease"}

NotCalled == [called |-> FALSE, tokenizers |-> "ok", raised |-> FALSE, ret |-> 0]

MetInit ==
    /\ metText \in MetArgs
    /\ metRes = [f \in MetFunctions |-> NotCalled]

MetIdle ==
    /\ metText = Str(<<>>)
    /\ metRes = [f \in MetFunctions |-> NotCalled]

Returned(f, tokenizers, r) ==
    metRes' = [metRes EXCEPT ![f] = [called |-> TRUE, tokenizers |-> tokenizers,
                                     raised |-> r.raised, ret |-> r.ret]]

CalculateAllMetrics ==
    /\ ~metRes["calculate_all_metrics"].called
    /\ \E tokenizers \in TokenizerOutcomes :
       \E r \in calculate_all_metrics(metText, tokenizers) :
          Returned("calculate_all_metrics", tokenizers, r)
    /\ UNCHANGED metText

\* main.py's calculate_reading_ease, with count_syllables of readability_metrics
CalculateReadingEaseMain ==
    /\ ~metRes["main.calculate_reading_ease"].called
    /\ \E tokenizers \in TokenizerOutcomes :
       \E r \in calculate_reading_ease(metText, tokenizers, OwnCounter) :
          Returned("main.calculate_reading_ease", tokenizers, r)
    /\ UNCHANGED metText

\* app.py's calculate_reading_ease, whose count_syllables is the library's
\* syllables.estimate: here one positive estimate for every word of the call
CalculateReadingEaseApp ==
    /\ ~metRes["app.calculate_reading_ease"].called
    /\ \E tokenizers \in TokenizerOutcomes :
       \E estimate \in 1..MaxEstimate :
       \E r \in calculate_reading_ease(metText, tokenizers, LibraryCounter(estimate)) :
          Returned("app.calculate_reading_ease", tokenizers, r)
    /\ UNCHANGED metText

(***************************************************************************)
(* The clause loops of the handlers on the segmenter's inputs              *)
(***************************************************************************)
\* app.py lines 377-390 (main.py lines 528-550 and 568-578) in a process
\* that has no classifier model and cannot load the paraphraser:
\* preprocess_contract_text, then the loops that classify and simplify each
\* clause and number the records
ClauseLoops(raw_text, cls, smp) ==
    The({ClauseRecords(
             processed_clauses,
             ClauseTypes(processed_clauses, cls.model, cls.tokenizer,
                         [raised |-> FALSE, predicted |-> 0]),
             SimplifyClauses(processed_clauses, "basic",
                             [simplifier |-> smp.simplifier,
                              attempted |-> smp.attempted, built |-> 0],
                             FALSE, "ok", [raised |-> FALSE, joined |-> <<>>],
                             <<>>).texts) :
         processed_clauses \in {preprocess_contract_text(raw_text)}})

\* a handler's clause loops run on the text segment_clauses was called with
HandlerClauseLoops ==
    /\ segDone
    /\ segRecords = <<>>
    /\ _model = "None" /\ _simplifier = "None" /\ ~_HAS_HF
    /\ segRecords' = ClauseLoops(segText, Cls, Smp)
    /\ UNCHANGED <<segText, segClauses, segDone>>

(***************************************************************************)
(* Specifications                                                          *)
(***************************************************************************)
NotSeg == <<rulesVars, termVars, modVars, callVars, thrVars, srvVars, simVars, cleanVars, metVars>>

SegNext ==
    \/ SegmentClauses /\ UNCHANGED NotSeg
    \/ HandlerClauseLoops /\ UNCHANGED NotSeg

InitSegment == SegInit /\ RulesIdle /\ TermsIdle /\ ModIdle /\ CallsIdle
                   /\ ThreadsIdle /\ ServerIdle /\ SimIdle /\ CleanIdle /\ MetIdle

SpecSegment == InitSegment /\ [][SegNext]_vars

RulesNext ==
    RuleBasedClassify /\ UNCHANGED <<segVars, termVars, modVars, callVars, thrVars, srvVars,
                                  simVars, cleanVars, metVars>>

InitRules == RulesInit /\ SegIdle /\ TermsIdle /\ ModIdle /\ CallsIdle
                   /\ ThreadsIdle /\ ServerIdle /\ SimIdle /\ CleanIdle /\ MetIdle

SpecRules == InitRules /\ [][RulesNext]_vars

TermsNext ==
    \/ ExtractRegexAndLexicon /\ UNCHANGED <<segVars, rulesVars, modVars, callVars, thrVars, srvVars,
                                  simVars, cleanVars, metVars>>
    \/ ExtractEntities /\ UNCHANGED <<segVars, rulesVars, modVars, callVars, thrVars, srvVars,
                                  simVars, cleanVars, metVars>>

InitTerms == TermsInit /\ SegIdle /\ RulesIdle /\ ModIdle /\ CallsIdle
                   /\ ThreadsIdle /\ ServerIdle /\ SimIdle /\ CleanIdle /\ MetIdle

SpecTerms == InitTerms /\ [][TermsNext]_vars

CallsNext ==
    \/ CallEnsureModelLoaded /\ UNCHANGED <<segVars, rulesVars, termVars, thrVars, srvVars,
                                  simVars, cleanVars, metVars>>
    \/ CallDetectClauseType /\ UNCHANGED <<segVars, rulesVars, termVars, thrVars, srvVars,
                                  simVars, cleanVars, metVars>>
    \/ CallEnsureSimplifierLoaded /\ UNCHANGED <<segVars, rulesVars, termVars, thrVars, srvVars,
                                  simVars, cleanVars, metVars>>
    \/ CallSimplifyText /\ UNCHANGED <<segVars, rulesVars, termVars, thrVars, srvVars,
                                  simVars, cleanVars, metVars>>

InitCalls ==
    ModInit /\ CallsInit /\ SegIdle /\ RulesIdle /\ TermsIdle /\ ThreadsIdle
        /\ ServerIdle /\ SimIdle /\ CleanIdle /\ MetIdle

SpecCalls == InitCalls /\ [][CallsNext]_vars

NotThreads == <<segVars, rulesVars, termVars, callVars, srvVars, simVars, cleanVars, metVars>>

ThreadsNext ==
    \/ \E t \in Threads : Detect(t) /\ UNCHANGED NotThreads
    \/ \E t \in Threads : SimplifyEnter(t) /\ UNCHANGED NotThreads
    \/ \E t \in Threads : EnsureCheck(t) /\ UNCHANGED NotThreads
    \/ \E t \in Threads : EnsureMark(t) /\ UNCHANGED NotThreads
    \/ \E t \in Threads : EnsureConstruct(t) /\ UNCHANGED NotThreads
    \/ \E t \in Threads : EnsureAssign(t) /\ UNCHANGED NotThreads
    \/ \E t \in Threads : SimplifyUse(t) /\ UNCHANGED NotThreads
    \/ \E t \in Threads : LoadCheck(t) /\ UNCHANGED NotThreads
    \/ \E t \in Threads : LoadTokenizer(t) /\ UNCHANGED NotThreads
    \/ \E t \in Threads : LoadModel(t) /\ UNCHANGED NotThreads
    \/ \E t \in Threads : LoadFailed(t) /\ UNCHANGED NotThreads

InitThreads ==
    ThreadsInit /\ CallsIdle /\ SegIdle /\ RulesIdle /\ TermsIdle /\ ServerIdle
        /\ SimIdle /\ CleanIdle /\ MetIdle

SpecThreads == InitThreads /\ [][ThreadsNext]_vars

NotServer == <<segVars, rulesVars, termVars, callVars, thrVars, simVars, cleanVars, metVars>>

ServerNext ==
    \/ ProcessDocumentMain /\ UNCHANGED NotServer
    \/ ProcessDocumentApp /\ UNCHANGED NotServer

InitServer ==
    ServerInit /\ CallsIdle /\ ThreadsIdle /\ SegIdle /\ RulesIdle /\ TermsIdle
        /\ SimIdle /\ CleanIdle /\ MetIdle

SpecServer == InitServer /\ [][ServerNext]_vars

NotSim == <<segVars, rulesVars, termVars, modVars, callVars, thrVars, srvVars, cleanVars, metVars>>

SimNext == SimplifyText /\ UNCHANGED NotSim

InitSim == SimInit /\ SimplifierLoaded /\ SegIdle /\ RulesIdle /\ TermsIdle /\ CallsIdle
               /\ ThreadsIdle /\ ServerIdle /\ CleanIdle /\ MetIdle

SpecSim == InitSim /\ [][SimNext]_vars

NotClean == <<segVars, rulesVars, termVars, modVars, callVars, thrVars, srvVars, simVars,
             metVars>>

CleanNext == CleanText /\ UNCHANGED NotClean

InitClean == CleanInit /\ SegIdle /\ RulesIdle /\ TermsIdle /\ ModIdle /\ CallsIdle
                 /\ ThreadsIdle /\ ServerIdle /\ SimIdle /\ MetIdle

SpecClean == InitClean /\ [][CleanNext]_vars

NotMet == <<segVars, rulesVars, termVars, modVars, callVars, thrVars, srvVars, simVars,
           cleanVars>>

MetNext ==
    \/ CalculateAllMetrics /\ UNCHANGED NotMet
    \/ CalculateReadingEaseMain /\ UNCHANGED NotMet
    \/ CalculateReadingEaseApp /\ UNCHANGED NotMet

InitMet == MetInit /\ SegIdle /\ RulesIdle /\ TermsIdle /\ ModIdle /\ CallsIdle
               /\ ThreadsIdle /\ ServerIdle /\ SimIdle /\ CleanIdle

SpecMet == InitMet /\ [][MetNext]_vars

(***************************************************************************)
(* Claims about segment_clauses                                            *)
(***************************************************************************)
\* the input after the line-break normalization
SegNormText == NormalizeLineBreaks(segText)

SegMarkersFound == Splits(SegNormText) # <<>>

Range(s) == {s[i] : i \in 1..Len(s)}

\* the non-whitespace characters of a string, in order
NonWhitespace(s) == LET Keep(c) == c \notin Whitespace IN SelectSeq(s, Keep)

RECURSIVE Flatten(_)
Flatten(ss) == IF ss = <<>> THEN <<>> ELSE Head(ss) \o Flatten(Tail(ss))

\* C1: for every input that is not empty and not whitespace only,
\* segment_clauses returns at least one clause, whichever path it takes
\* (markers, paragraphs, whole text).
C1_NeverEmptyClauseList ==
    (segDone /\ Strip(segText) # <<>>) => Len(segClauses) >= 1

\* C1 witness: markers matched, every candidate clause was dropped and the
\* whole text came back as the single clause.
C1_Witness_WholeTextFallback ==
    /\ segDone
    /\ Strip(segText) # <<>>
    /\ SegMarkersFound
    /\ MarkerClauses(SegNormText, Splits(SegNormText)) = <<>>
    /\ segClauses = <<SegNormText>>

\* C2 as stated: whenever a marker matches, every non-whitespace character
\* of the input is contained in some returned clause.
C2_Original_Exhaustive ==
    (segDone /\ Strip(segText) # <<>> /\ SegMarkersFound)
        => NonWhitespace(segText) = NonWhitespace(Flatten(segClauses))

\* the candidate clauses of the marker path: the text before the first
\* marker, and one span per marker up to the next marker or the end
SegCandidateSpans(text, splits) ==
    (IF splits[1].pos > 1
     THEN {[from |-> 1, to |-> splits[1].pos - 1, min |-> MinCleanClauseLen]}
     ELSE {})
    \cup {[from |-> splits[i].pos,
           to |-> IF i < Len(splits) THEN splits[i + 1].pos - 1 ELSE Len(text),
           min |-> MinMarkerClauseLen] : i \in 1..Len(splits)}

\* the candidates that were not dropped for being short must be returned
SegLongCandidates(text, splits) ==
    {sp \in SegCandidateSpans(text, splits) :
        Len(Strip(SubSeq(text, sp.from, sp.to))) > sp.min}

\* C2 amended: whenever a marker matches, every non-whitespace character of
\* the input lies in a returned clause or in a candidate clause that was
\* dropped for being short (at most 15 characters after trimming, at most
\* 10 for the text before the first marker).
C2_ExhaustiveUpToShortClauses ==
    (segDone /\ Strip(segText) # <<>>) =>
        LET text == SegNormText
            splits == Splits(text)
        IN  splits # <<>> =>
                \/ segClauses = <<text>>
                \/ LET spans == SegCandidateSpans(text, splits)
                       long == SegLongCandidates(text, splits)
                       returned == Range(segClauses)
                   IN  /\ \A p \in 1..Len(text) :
                              text[p] \notin Whitespace =>
                                  \E sp \in spans : p \in sp.from..sp.to
                       /\ \A sp \in long :
                              Strip(SubSeq(text, sp.from, sp.to)) \in returned

\* C2 witness: markers matched, a clause was returned and a short candidate
\* was dropped, so some characters of the input are in no returned clause.
C2_Witness_ShortCandidateDropped ==
    /\ segDone
    /\ SegMarkersFound
    /\ segClauses # <<SegNormText>>
    /\ NonWhitespace(segText) # NonWhitespace(Flatten(segClauses))
    /\ \E sp \in SegCandidateSpans(SegNormText, Splits(SegNormText)) :
          sp.from = 1 /\ sp.min = MinCleanClauseLen

\* the text with every line break written as \n: line 50 alone
UnixLineBreaks(text) ==
    ReSub(<<One({"\r"}), Rep({"\n"}, 0, 1)>>, <<"\n">>, text, FALSE)

\* no marker matches anywhere in the segmented text
NoMarkerMatches == Splits(NormalizeLineBreaks(segText)) = <<>>

\* C25, as stated: when no marker matches, the result is the list of the
\* blank-line-delimited paragraphs of the text longer than 20 characters, in
\* order, and a single clause only when no paragraph is that long
C25_Original_BlankLineParagraphs ==
    (segDone /\ Strip(segText) # <<>> /\ NoMarkerMatches) =>
        The({IF paragraphs # <<>>
             THEN segClauses = paragraphs
             ELSE Len(segClauses) = 1 :
             paragraphs \in {ParagraphClauses(UnixLineBreaks(segText))}})

\* two paragraphs of 24 characters with a blank line between them come back
\* as one clause
C25_Witness_TwoParagraphsOneClause ==
    /\ segDone
    /\ segText = <<"t","h","e"," ","c","o","n","t","r","a","c","t","o","r"," ","s","h","a","l","l"," ","p","a","y">> \o <<"\r","\n","\r","\n">> \o <<"t","h","e"," ","c","o","n","t","r","a","c","t","o","r"," ","s","h","a","l","l"," ","p","a","y">>
    /\ NoMarkerMatches
    /\ Len(ParagraphClauses(UnixLineBreaks(segText))) = 2
    /\ segClauses = <<<<"t","h","e"," ","c","o","n","t","r","a","c","t","o","r"," ","s","h","a","l","l"," ","p","a","y">> \o <<"\n">> \o <<"t","h","e"," ","c","o","n","t","r","a","c","t","o","r"," ","s","h","a","l","l"," ","p","a","y">>>>

\* the marker path was taken and gave at least one clause
MarkerPathTaken ==
    /\ segDone /\ Strip(segText) # <<>> /\ ~NoMarkerMatches
    /\ MarkerClauses(NormalizeLineBreaks(segText),
                     Splits(NormalizeLineBreaks(segText))) # <<>>

\* C26, as stated: on the marker path no returned clause has fewer than 15
\* characters, the text before the first marker included
C26_Original_NoShortClause ==
    MarkerPathTaken =>
        \A i \in 1..Len(segClauses) : Len(segClauses[i]) >= MinMarkerClauseLen

\* the 12 characters before the first marker are returned as a clause
C26_Witness_ShortPreMarkerText ==
    /\ MarkerPathTaken
    /\ segText = <<"p","a","y"," ","t","h","e"," ","f","e","e","s"," ","N","o","t","e",":","t","h","e"," ","c","o","n","t","r","a","c","t","o","r"," ","s","h","a","l","l"," ","p","a","y">>
    /\ segClauses = <<<<"p","a","y"," ","t","h","e"," ","f","e","e","s">>, <<"N","o","t","e",":","t","h","e"," ","c","o","n","t","r","a","c","t","o","r"," ","s","h","a","l","l"," ","p","a","y">>>>

\* the markers whose pattern needs no newline: all but AND_SEPARATOR and
\* NUMBERED_CLAUSE
NewlineIndependent ==
    {k \in 1..Len(markers) : markers[k].label \notin {"AND_SEPARATOR", "NUMBERED_CLAUSE"}}

\* a newline-independent marker matches somewhere in the text
MarkerFound(text) ==
    \E k \in NewlineIndependent : FindIter(markers[k].pattern, text, 1, TRUE) # <<>>

\* preprocess_contract_text gave one clause, the whole normalized text
OneClauseOfWholeText ==
    /\ Len(segRecords) = 1
    /\ segRecords[1].raw_text = clean_text(segText)
    /\ segRecords[1].cleaned_text = clean_text(segText)

\* C30, as stated: when no newline-independent marker matches the raw text,
\* preprocess_contract_text returns one clause, the whole normalized text
C30_Original_NoMarkerInRawText ==
    (segRecords # <<>> /\ ~MarkerFound(segText)) => OneClauseOfWholeText

\* C30, amended: when no newline-independent marker matches the output of
\* clean_text, on which segmentation runs, preprocess_contract_text returns
\* one clause, the whole normalized text, however many clauses
\* segment_clauses finds in the raw text
C30_NoMarkerInNormalizedText ==
    (segRecords # <<>> /\ ~MarkerFound(clean_text(segText))) => OneClauseOfWholeText

\* two paragraphs and a numbered clause in the raw text, one clause returned
C30_Witness_ParagraphsGiveOneClause ==
    /\ segText = <<"t","h","e"," ","c","o","n","t","r","a","c","t","o","r"," ","s","h","a","l","l"," ","p","a","y">> \o <<"\n"," ","\n">> \o <<"t","h","e"," ","c","o","n","t","r","a","c","t","o","r"," ","s","h","a","l","l"," ","p","a","y">>
    /\ Len(segClauses) = 2
    /\ ~MarkerFound(clean_text(segText))
    /\ OneClauseOfWholeText

(***************************************************************************)
(* Claims about _rule_based_classify                                       *)
(***************************************************************************)
\* the order of the rules as the claim lists it
C9_Order ==
    << [label |-> "Confidentiality", keywords |-> KwConfidentiality],
       [label |-> "Termination", keywords |-> KwTermination],
       [label |-> "Indemnity", keywords |-> KwIndemnity],
       [label |-> "Dispute Resolution", keywords |-> KwDisputeResolution],
       [label |-> "Governing Law", keywords |-> KwGoverningLaw],
       [label |-> "Payment Terms", keywords |-> KwPaymentTerms],
       [label |-> "Intellectual Property", keywords |-> KwIntellectualProperty],
       [label |-> "Warranties", keywords |-> KwWarranties],
       [label |-> "Limitation of Liability", keywords |-> KwLimitationofLiability],
       [label |-> "Force Majeure", keywords |-> KwForceMajeure],
       [label |-> "Assignment", keywords |-> KwAssignment],
       [label |-> "Non-Compete", keywords |-> KwNonCompete],
       [label |-> "Severability", keywords |-> KwSeverability],
       [label |-> "Amendment", keywords |-> KwAmendment],
       [label |-> "Notice", keywords |-> KwNotice] >>

\* the rules having a keyword contained in the lower-cased text
C9_Hits(text) ==
    {i \in 1..Len(C9_Order) :
        \E k \in 1..Len(C9_Order[i].keywords) :
            Contains(Lower(text), C9_Order[i].keywords[k])}

\* C9: the result of the rule-based classifier is the label of the first
\* rule, in the order Confidentiality .. Notice, one of whose keywords is
\* a substring of the lower-cased text, and "Other" when no rule has one;
\* text holding only "indemnify" gives "Indemnity".
C9_FirstMatchingRuleWins ==
    rulesDone =>
        /\ rulesLabel = IF C9_Hits(rulesText) = {} THEN "Other"
                        ELSE C9_Order[Min(C9_Hits(rulesText))].label
        /\ rulesText = <<"i","n","d","e","m","n","i","f","y">> => rulesLabel = "Indemnity"

\* C9 witness: keywords of two rules are contained in the text (one of them
\* in upper case) and the earlier rule gave the label.
C9_Witness_TwoRulesMatch ==
    /\ rulesDone
    /\ C9_Hits(rulesText) = {2, 15}
    /\ rulesLabel = "Termination"

(***************************************************************************)
(* Claims about extract_legal_terms                                        *)
(***************************************************************************)
\* the case-insensitive key of a record
TermKey(record) == Lower(record.term)

\* C10: in every result of extract_legal_terms no two records have the
\* same lower-cased term text, whichever of the stages (quoted, definition
\* cue, lexicon, entity) matched.
C10_UniqueTermKeys ==
    TermDone =>
        \A i, j \in 1..Len(termFound) :
            i # j => TermKey(termFound[i]) # TermKey(termFound[j])

\* C10 witness: "indemnity" is matched as a defined term, as a lexicon
\* keyword and as a processed LAW entity, and is recorded once.
C10_Witness_SameKeyInThreeStages ==
    /\ TermDone
    /\ termNer.loaded
    /\ \E k \in 1..termNer.processed :
          /\ termNer.ents[k].label = "LAW"
          /\ Lower(termNer.ents[k].text) = <<"i","n","d","e","m","n","i","t","y">>
    /\ Cardinality({i \in 1..Len(termFound) :
                       TermKey(termFound[i]) = <<"i","n","d","e","m","n","i","t","y">>}) = 1
    /\ \E i \in 1..Len(termFound) :
          /\ TermKey(termFound[i]) = <<"i","n","d","e","m","n","i","t","y">>
          /\ termFound[i].category = "Defined Term"

\* the keys of a list of records
TermKeys(records) == {TermKey(records[i]) : i \in 1..Len(records)}

\* the records whose key is not among `keys`, in their order
WithoutKeys(records, keys) ==
    LET Keep(r) == TermKey(r) \notin keys IN SelectSeq(records, Keep)

\* C11: the result is the records of the quoted stage, then those of the
\* definition-cue stage whose key no quoted term has, then those of the
\* lexicon stage whose key no earlier stage has, then those of the entity
\* stage whose key no earlier stage has; so a key matched by several stages
\* gets the term text and category of the first of them, and the records
\* of an earlier stage come before those of a later one.
C11_EarlierStageWins ==
    (TermDone /\ Strip(termText) # <<>>) =>
        The({termFound =
                 q \o WithoutKeys(d, TermKeys(q))
                   \o WithoutKeys(l, TermKeys(q) \cup TermKeys(d))
                   \o WithoutKeys(e, TermKeys(q) \cup TermKeys(d) \cup TermKeys(l)) :
             q \in {QuotedStage(termText, NoTerms).found},
             d \in {DefinitionStage(termText, NoTerms).found},
             l \in {LexiconStage(termText, NoTerms).found},
             e \in {EntityStage(termNer, NoTerms).found}})

\* C11 witness: "indemnity" is a quoted term and a lexicon keyword, it is
\* recorded as the quoted term, and a record of a later stage follows it.
C11_Witness_QuotedBeforeLexicon ==
    /\ TermDone
    /\ Len(termFound) >= 2
    /\ TermKey(termFound[1]) = <<"i","n","d","e","m","n","i","t","y">>
    /\ termFound[1].category = "Defined Term"
    /\ termFound[1] \in Range(QuotedStage(termText, NoTerms).found)
    /\ <<"i","n","d","e","m","n","i","t","y">> \in
           TermKeys(LexiconStage(termText, NoTerms).found)
    /\ termFound[2].category # "Defined Term"

\* the entity stage raised: at the call of the recogniser, or in the loop
\* before it had gone through all entities
NerFailed(ner) == ner.loaded /\ ner.processed < Len(ner.ents)

\* C12, as stated: when the entity stage fails, the result is the result of
\* the quoted, definition and lexicon stages alone.
C12_Original_FailedNerAddsNoTerms ==
    (TermDone /\ Strip(termText) # <<>> /\ NerFailed(termNer)) =>
        termFound = termAcc.found

\* C12 witness: the recogniser fails before any entity is processed and
\* the result is that of the first three stages, though an entity of the
\* text would have given a term
C12_Witness_NerFailsBeforeFirstEntity ==
    /\ TermDone
    /\ NerFailed(termNer)
    /\ termNer.processed = 0
    /\ termFound = termAcc.found
    /\ EntityLoop(termNer.ents, Len(termNer.ents), termAcc, 1).found # termAcc.found

\* the straight and the curly quote characters
AnyQuote == QuoteChars \cup {"LDQ", "RDQ", "LSQ", "RSQ"}

\* the phrases of a text that stand between two quote characters
QuotedPhrases(text) ==
    {SubSeq(text, i + 1, j - 1) :
        <<i, j>> \in {<<i, j>> \in (1..Len(text)) \X (1..Len(text)) :
                         /\ i + 1 < j
                         /\ text[i] \in AnyQuote /\ text[j] \in AnyQuote
                         /\ \A k \in (i + 1)..(j - 1) : text[k] \notin AnyQuote}}

\* a phrase of letters and spaces that starts with an uppercase letter and
\* has no space at either end
CapitalizedPhrase(p) ==
    /\ p # <<>>
    /\ p[1] \in UpperLetters
    /\ \A k \in 1..Len(p) : p[k] \in Letters \cup {" "}
    /\ Strip(p) = p

DefinedTerm(p) ==
    \E i \in 1..Len(termFound) :
        termFound[i].term = p /\ termFound[i].category = "Defined Term"

\* C21, as stated: a capitalized phrase between straight or curly quotes is
\* recorded as a "Defined Term" when it has 2 to 30 characters, and is not
\* when its length is outside 2 to 30.
C21_Original_QuotedPhraseLengths ==
    (TermDone /\ Strip(termText) # <<>>) =>
        \A p \in QuotedPhrases(termText) :
            CapitalizedPhrase(p) => (DefinedTerm(p) <=> Len(p) \in 2..30)

\* a quoted phrase of two characters is not recorded
C21_Witness_TwoCharacterPhrase ==
    /\ TermDone
    /\ termText = <<"\"","A","b","\"">>
    /\ <<"A","b">> \in QuotedPhrases(termText)
    /\ termFound = <<>>

(***************************************************************************)
(* Claims about the classifier model and the paraphraser                   *)
(***************************************************************************)
\* C4, as stated: once a call of ensure_model_loaded has failed, no later
\* call starts a construction of the classifier model again and the model
\* stays unloaded, so every later detect_clause_type call returns the label
\* of the rule-based classifier.
C4_Original_NoRetryAfterFailedInit ==
    hist.clsFailed =>
        /\ hist.clsBuiltAfterFailure = 0
        /\ _model = "None"
        /\ (lastCall.op = "detect_clause_type" /\ lastCall.afterFailedInit)
              => ~lastCall.loaded

\* a detect_clause_type call made after a failed initialization
C4_Witness_DetectAfterFailedInit ==
    /\ lastCall.op = "detect_clause_type"
    /\ lastCall.afterFailedInit
    /\ ~Blank(lastCall.text)

\* C6: over a sequential series of ensure_simplifier_loaded and
\* simplify_text calls the paraphraser is constructed at most once, and
\* every call made after the first attempt starts no construction and
\* returns or uses the outcome of that attempt: the cached pipeline, or its
\* cached absence.
C6_SimplifierLoadedOnce ==
    /\ built.simplifier <= 1
    /\ hist.cached # "unset" => (_load_attempted /\ _simplifier = hist.cached)
    /\ lastCall.cached # "unset" =>
          /\ lastCall.built = 0
          /\ hist.cached = lastCall.cached
          /\ lastCall.op = "ensure_simplifier_loaded"
                => lastCall.ok = (lastCall.cached = "pipeline")
          /\ (lastCall.op = "simplify_text" /\ ~Blank(lastCall.text))
                => lastCall.path = (/\ lastCall.cached = "pipeline"
                                    /\ Len(Split(lastCall.text)) > WordThreshold)

\* a simplify_text call that uses the pipeline an earlier call constructed
C6_Witness_CachedPipelineUsed ==
    /\ lastCall.op = "simplify_text"
    /\ lastCall.cached = "pipeline"
    /\ lastCall.path
    /\ built.simplifier = 1

\* C8: when the model and tokenizer are loaded and inference raises,
\* detect_clause_type returns the label of the rule-based classifier for
\* that text and leaves the model and tokenizer in place; a later call with
\* the model loaded returns the model's label again.
C8_InferenceFailureFallsBack ==
    (lastCall.op = "detect_clause_type" /\ lastCall.loaded /\ ~Blank(lastCall.text)) =>
        /\ _model = "model"
        /\ _tokenizer = "tokenizer"
        /\ lastCall.inference.raised
              => lastCall.label = _rule_based_classify(lastCall.text)
        /\ (lastCall.afterRaise /\ ~lastCall.inference.raised)
              => lastCall.label = CLAUSE_LABELS[lastCall.inference.predicted + 1]

\* inference raised on a text the rules label otherwise than "Other", and
\* the next call got the model's label
C8_Witness_RaiseThenModelLabel ==
    /\ lastCall.op = "detect_clause_type"
    /\ lastCall.loaded
    /\ lastCall.afterRaise
    /\ ~lastCall.inference.raised
    /\ lastCall.label = "Notice"
    /\ _rule_based_classify(lastCall.text) = "Confidentiality"

\* C13: a simplify_text call that ends with no paraphraser loaded (the
\* library is missing, the load failed in this call or in an earlier one)
\* returns its text unchanged, whatever the text and the level.
C13_NoCapabilityReturnsText ==
    (lastCall.op = "simplify_text" /\ _simplifier = "None") =>
        lastCall.out = lastCall.text

\* C13 witness: the library is there, the load has failed, and a text of
\* more than ten words comes back unchanged at level "advanced"
C13_Witness_LongTextAfterFailedLoad ==
    /\ lastCall.op = "simplify_text"
    /\ _HAS_HF /\ _load_attempted /\ _simplifier = "None"
    /\ lastCall.level = "advanced"
    /\ Len(Split(lastCall.text)) > 10
    /\ lastCall.out = lastCall.text

\* C14, as stated: with a paraphraser loaded, a text of fewer than 10 words
\* is returned unchanged and a text of 10 words or more goes through the
\* sentence loop.
C14_Original_ThresholdTenWords ==
    (lastCall.op = "simplify_text" /\ _simplifier # "None"
        /\ ~Blank(lastCall.text)) =>
        /\ Len(Split(lastCall.text)) < 10 =>
               (~lastCall.path /\ lastCall.out = lastCall.text)
        /\ Len(Split(lastCall.text)) >= 10 => lastCall.path

\* C14 witness: with a paraphraser loaded, a text of 11 words goes through
\* the sentence loop
C14_Witness_ElevenWordsProcessed ==
    /\ lastCall.op = "simplify_text"
    /\ _simplifier # "None"
    /\ Len(Split(lastCall.text)) = 11
    /\ lastCall.path

\* the clauses occur in the text one after the other, none starting before
\* the one before it has ended
RECURSIVE OccurInOrder(_, _, _, _)
OccurInOrder(clauses, text, k, from) ==
    IF k > Len(clauses) THEN TRUE
    ELSE LET n == Len(clauses[k])
             starts == {s \in from..(Len(text) - n + 1) : SubSeq(text, s, s + n - 1) = clauses[k]}
         IN  starts # {} /\ OccurInOrder(clauses, text, k + 1, Min(starts) + n)

\* the text segment_clauses cuts: its argument with the line breaks normalized
SegmentedText(text) == IF Blank(text) THEN text ELSE NormalizeLineBreaks(text)

\* C17: the clauses segment_clauses returns occur in its (line-break
\* normalized) input in the order returned, each after the end of the one
\* before; the records a handler builds carry, in the same order, the clauses
\* segment_clauses returns for the cleaned text, numbered 1..n.
C17_ClausesInDocumentOrder ==
    /\ segDone => OccurInOrder(segClauses, SegmentedText(segText), 1, 1)
    /\ segRecords # <<>> =>
           The({/\ [i \in 1..Len(segRecords) |-> segRecords[i].raw_text]
                       = segment_clauses(cleaned_text)
                /\ OccurInOrder([i \in 1..Len(segRecords) |-> segRecords[i].raw_text],
                                SegmentedText(cleaned_text), 1, 1)
                /\ \A i \in 1..Len(segRecords) : segRecords[i].index = i :
                cleaned_text \in {clean_text(segText)}})

\* text before the first marker, then the marker's clause: two clauses
\* returned and two records numbered 1 and 2
C17_Witness_PreMarkerTextFirst ==
    /\ segText = <<"p","a","y"," ","t","h","e"," ","f","e","e","s">> \o <<" ","N","o","t","e",":">> \o <<"t","h","e"," ","c","o","n","t","r","a","c","t","o","r"," ","s","h","a","l","l"," ","p","a","y">>
    /\ segClauses = <<<<"p","a","y"," ","t","h","e"," ","f","e","e","s">>, <<"N","o","t","e",":","t","h","e"," ","c","o","n","t","r","a","c","t","o","r"," ","s","h","a","l","l"," ","p","a","y">>>>
    /\ Len(segRecords) = 2
    /\ segRecords[1].index = 1 /\ segRecords[1].raw_text = <<"p","a","y"," ","t","h","e"," ","f","e","e","s">>
    /\ segRecords[2].index = 2 /\ segRecords[2].raw_text = <<"N","o","t","e",":","t","h","e"," ","c","o","n","t","r","a","c","t","o","r"," ","s","h","a","l","l"," ","p","a","y">>

(***************************************************************************)
(* Claims about clean_text                                                 *)
(***************************************************************************)
\* C18: clean_text called on a string it returned returns the same string.
C18_CleanTextIdempotent ==
    \A k \in 2..Len(cleanOuts) :
        ~cleanOuts[k].raised /\ cleanOuts[k].ret = cleanOuts[k - 1].ret

\* a string the first call changed, cleaned a second time
C18_Witness_CleanedTwice ==
    /\ cleanText = Str(<<"a", " ", "NBSP", " ", "LDQ">>)
    /\ Len(cleanOuts) = 2
    /\ cleanOuts[1].ret = <<"a", " ", "LDQ">>
    /\ cleanOuts[2].ret = cleanOuts[1].ret

\* ret has two whitespace characters side by side
HasWhitespaceRun(ret) == \E i \in 1..(Len(ret) - 1) : ret[i] \in Whitespace /\ ret[i + 1] \in Whitespace

\* C19, as stated: what clean_text returns has no non-breaking space, no
\* carriage return, form feed or vertical tab, no two whitespace characters
\* side by side, no curly quote, and no whitespace at either end.
C19_Original_CleanOutput ==
    \A k \in 1..Len(cleanOuts) :
        ~cleanOuts[k].raised =>
            /\ \A i \in 1..Len(cleanOuts[k].ret) :
                   cleanOuts[k].ret[i] \notin {"NBSP", "\r", "\f", "VT"} \cup CurlyQuotes
            /\ ~HasWhitespaceRun(cleanOuts[k].ret)
            /\ Strip(cleanOuts[k].ret) = cleanOuts[k].ret

\* a curly double quote comes back as it went in
C19_Witness_CurlyQuoteKept ==
    /\ cleanText = Str(<<"LDQ", "a", "RDQ">>)
    /\ Len(cleanOuts) = 1
    /\ cleanOuts[1].ret = <<"LDQ", "a", "RDQ">>

\* C20, as stated: clean_text never raises, and returns the empty string
\* for the empty string and for None.
C20_Original_CleanTextTotal ==
    cleanOuts # <<>> =>
        /\ ~cleanOuts[1].raised
        /\ (cleanText.none \/ cleanText.s = <<>>) => cleanOuts[1].ret = <<>>

\* clean_text(None) raises
C20_Witness_NoneRaises ==
    /\ cleanText = NoneArg
    /\ Len(cleanOuts) = 1
    /\ cleanOuts[1].raised

(***************************************************************************)
(* Claims about the metrics                                                *)
(***************************************************************************)
\* the zero result of a metrics function
ZeroOf(f) == IF f = "calculate_all_metrics" THEN ZeroMetrics.ret ELSE 0

\* the alphabetic tokens of the measured text
MetWords == SelectSeq(word_tokenize(metText.s), IsAlpha)

\* C22: calculate_all_metrics and both calculate_reading_ease never raise, and
\* return the zero result on None, on empty or whitespace-only text, and on
\* text on which the tokenizers fail
C22_MetricsFunctionsTotal ==
    \A f \in MetFunctions :
        metRes[f].called =>
            /\ ~metRes[f].raised
            /\ (BlankArg(metText) \/ metRes[f].tokenizers = "raise") =>
                   metRes[f].ret = ZeroOf(f)

C22_Witness_TokenizerFailureGivesZeros ==
    /\ metText = Str(<<"i","n","d","e","m","n","i","f","i","c","a","t","i","o","n"," ">>)
    /\ \A f \in MetFunctions :
          /\ metRes[f].called /\ metRes[f].tokenizers = "raise"
          /\ ~metRes[f].raised /\ metRes[f].ret = ZeroOf(f)

\* C23: calculate_reading_ease returns a value between 0 and 100, and exactly
\* 0 for blank text and for text without sentences or alphabetic words
C23_ReadingEaseInRange ==
    \A f \in MetFunctions \ {"calculate_all_metrics"} :
        metRes[f].called =>
            /\ metRes[f].ret \in 0..10000
            /\ BlankArg(metText) => metRes[f].ret = 0
            /\ (~BlankArg(metText) /\ (sent_tokenize(metText.s) = <<>> \/ MetWords = <<>>)) =>
                   metRes[f].ret = 0

\* one word of one syllable in one sentence scores 121.22 before the clamp
C23_Witness_ClampedAtHundred ==
    /\ metText = Str(<<"G","o","."," ">>)
    /\ metRes["main.calculate_reading_ease"].called
    /\ metRes["main.calculate_reading_ease"].tokenizers = "ok"
    /\ ScoreNum(1, 1, 1) > 100 * ScoreDen(1, 1)
    /\ metRes["main.calculate_reading_ease"].ret = 10000

\* C29, as stated: complex_word_count is at most word_count
C29_Original_ComplexWithinWords ==
    metRes["calculate_all_metrics"].called =>
        metRes["calculate_all_metrics"].ret.complex_word_count
            <= metRes["calculate_all_metrics"].ret.word_count

\* a hyphenated token is no alphabetic word, and still counted as complex
C29_Witness_HyphenatedTokenCounted ==
    /\ metText = Str(<<"s","t","a","t","e","-","o","f","-","t","h","e","-","a","r","t"," ">>)
    /\ metRes["calculate_all_metrics"].called
    /\ metRes["calculate_all_metrics"].tokenizers = "ok"
    /\ metRes["calculate_all_metrics"].ret.word_count = 0
    /\ metRes["calculate_all_metrics"].ret.complex_word_count = 1

(***************************************************************************)
(* Claims about the sentence loop of simplify_text                         *)
(***************************************************************************)
\* the sentences of the last call that were sent to the paraphraser
SentIndexes == {i \in 1..Len(simRes.sentences) : SentToParaphraser(simRes.sentences[i])}

LoopRan == simDone /\ simRes.path /\ simRun.tokenized

\* C15, as stated: for every sentence sent to the paraphraser that came back
\* with a summary, the summary is used (post-processed at the intermediate
\* and advanced levels) exactly when the summary itself is longer than 5
\* characters and at most 1.5 times as long as the sentence; otherwise the
\* sentence is kept unchanged.
C15_Original_AcceptanceOnParaphraserOutput ==
    LoopRan =>
        \A i \in SentIndexes :
            simRun.outcomes[i].kind = "summary" =>
                simRes.simplified[i] =
                    IF Accepted(Strip(simRun.outcomes[i].summary_text), simRes.sentences[i])
                    THEN PostProcessed(Strip(simRun.outcomes[i].summary_text), simIn.level)
                    ELSE simRes.sentences[i]

\* a summary too long for its sentence is used all the same, because the
\* post-processing shortened it before the test
C15_Witness_TooLongSummaryUsed ==
    /\ LoopRan
    /\ simIn.level = "advanced"
    /\ 1 \in SentIndexes
    /\ simRun.outcomes[1] = Summarized(<<"N","o","t","w","i","t","h","s","t","a","n","d","i","n","g"," ","t","h","i","s"," ","y","o","u"," ","p","a","y"," ","t","h","e"," ","f","e","e",".">>)
    /\ ~Accepted(simRun.outcomes[1].summary_text, simRes.sentences[1])
    /\ simRes.simplified[1] = <<"D","e","s","p","i","t","e"," ","t","h","i","s"," ","y","o","u"," ","p","a","y"," ","t","h","e"," ","f","e","e",".">>

\* C16: when the paraphraser raises on a sentence, that sentence is kept as
\* it was, every other sentence sent to the paraphraser gets what the
\* paraphraser's answer for it gives, and the call returns the sentences
\* joined by single spaces.
C16_RaiseKeepsOnlyThatSentence ==
    LoopRan =>
        /\ Len(simRes.simplified) = Len(simRes.sentences)
        /\ \A i \in 1..Len(simRes.sentences) :
               simRes.simplified[i] =
                   IF i \notin SentIndexes \/ simRun.outcomes[i].kind = "raise"
                   THEN simRes.sentences[i]
                   ELSE Paraphrased(simRes.sentences[i], simIn.level, simRun.outcomes[i])
        /\ simRes.ret = Join(<<" ">>, simRes.simplified)

\* the paraphraser raises on the first sentence and the second sentence is
\* returned simplified
C16_Witness_RaiseThenAcceptedSummary ==
    /\ LoopRan
    /\ SentIndexes = {1, 2}
    /\ simRun.outcomes[1].kind = "raise"
    /\ simRun.outcomes[2] = Summarized(<<" ","Y","o","u"," ","p","a","y"," ","t","h","e"," ","f","e","e","."," ">>)
    /\ simRes.ret = simRes.sentences[1] \o <<" ">> \o <<"Y","o","u"," ","p","a","y"," ","t","h","e"," ","f","e","e",".">>
    /\ simRes.ret # simIn.text

\* C27: on the paraphraser path the result is the space-joined list that has
\* one element for each sentence of the input, in the order of the sentences,
\* each element the sentence itself or the simplification accepted for it
C27_OneElementPerSentence ==
    LoopRan =>
        /\ simRes.sentences = sent_tokenize(simIn.text)
        /\ DOMAIN simRes.simplified = DOMAIN simRes.sentences
        /\ \A i \in DOMAIN simRes.sentences :
               \/ simRes.simplified[i] = simRes.sentences[i]
               \/ /\ i \in SentIndexes
                  /\ simRun.outcomes[i].kind = "summary"
                  /\ simRes.simplified[i] =
                         PostProcessed(Strip(simRun.outcomes[i].summary_text), simIn.level)
                  /\ Accepted(simRes.simplified[i], simRes.sentences[i])
        /\ simRes.ret = Join(<<" ">>, simRes.simplified)

\* a short sentence, kept, comes before a sentence returned simplified
C27_Witness_ShortThenSimplified ==
    /\ LoopRan
    /\ simRes.sentences = <<<<"W","e"," ","a","g","r","e","e",".">>, <<"Y","o","u"," ","s","h","a","l","l"," ","p","a","y"," ","t","h","e"," ","f","e","e"," ","w","h","e","n"," ","i","t"," ","i","s"," ","d","u","e"," ","t","o"," ","u","s",".">>>>
    /\ SentIndexes = {2}
    /\ simRun.outcomes[2].kind = "summary"
    /\ simRes.simplified = <<<<"W","e"," ","a","g","r","e","e",".">>, <<"Y","o","u"," ","p","a","y"," ","t","h","e"," ","f","e","e",".">>>>
    /\ simRes.ret = <<"W","e"," ","a","g","r","e","e","."," ","Y","o","u"," ","p","a","y"," ","t","h","e"," ","f","e","e",".">>

(***************************************************************************)
(* Claims about concurrent requests                                        *)
(***************************************************************************)
\* C5, as stated: when the threads start with a capability (the paraphraser,
\* the classifier model) not yet constructed, then whatever their
\* interleaving the capability is constructed at most once.
C5_Original_OneConstructionPerCapability ==
    /\ start.built.simplifier = 0 => built.simplifier <= 1
    /\ start.built.classifier = 0 => built.classifier <= 1

\* two threads simplify a clause each while the paraphraser has not been
\* loaded, and pipeline(...) is called twice
C5_Witness_TwoPipelinesConstructed ==
    /\ \A t \in Threads : job[t].kind = "clause"
    /\ start.built.simplifier = 0
    /\ built.simplifier = 2

\* the clauses of the document processed one after the other, from the
\* globals the threads started with and with the same oracles
RECURSIVE SequentialRun(_, _, _)
SequentialRun(i, smp, acc) ==
    IF i > NThreads THEN acc
    ELSE LET r == simplify_text(job[i].text, job[i].level, smp, _HAS_HF,
                                pipelineOutcome, job[i].ai)
             l == detect_clause_type(job[i].text, start.model, start.tokenizer,
                                     job[i].inference)
         IN  SequentialRun(i + 1,
                           [simplifier |-> r.simplifier, attempted |-> r.attempted],
                           Append(acc, [type |-> l, simplified |-> r.ret]))

\* C7, as stated: when the threads classify and simplify the clauses of one
\* document in parallel, every clause gets the type and the simplified text
\* it gets when the clauses are processed sequentially.
C7_Original_ParallelEqualsSequential ==
    (\A t \in Threads : job[t].kind = "clause" /\ th[t].pc = "done") =>
        LET seq == SequentialRun(1, [simplifier |-> start.simplifier,
                                     attempted |-> start.attempted], <<>>)
        IN  \A t \in Threads :
                /\ th[t].label = seq[t].type
                /\ th[t].out = seq[t].simplified

\* all clauses were processed in parallel while the paraphraser was being
\* loaded by one of the threads
C7_Witness_ClausesDoneWhileLoading ==
    /\ \A t \in Threads : job[t].kind = "clause" /\ th[t].pc = "done"
    /\ start.built.simplifier = 0
    /\ built.simplifier = 1
    /\ _simplifier = "pipeline"

(***************************************************************************)
(* Claims about the request handlers                                       *)
(***************************************************************************)

ErrorPayload(r) == r.extracted /\ StartsWith(r.raw, ErrorMarker)

\* C3 (as claimed): when extract_text returns a payload starting with
\* "[ERROR]", the handler of either entry point runs neither clean_text nor
\* preprocess_contract_text on it, answers with an error, and stores no
\* document record; so no stored record has an error payload as its text.
C3_Original_ErrorPayloadStopsProcessing ==
    /\ ErrorPayload(lastRequest) =>
          /\ lastRequest.normalized = {}
          /\ lastRequest.preprocessed = {}
          /\ lastRequest.status \in {"400", "dashboard"}
          /\ ~lastRequest.stored
    /\ \A i \in 1..Len(docs) : ~StartsWith(docs[i].original_text, ErrorMarker)

\* /api/process of main.py has met an error payload and stopped with 400
C3_Witness_MainStopsOnErrorPayload ==
    /\ lastRequest.handler = "main"
    /\ ErrorPayload(lastRequest)
    /\ lastRequest.status = "400"
    /\ lastRequest.preprocessed = {}
    /\ docs = <<>>

\* what main.py does holds of main.py: the part of C3 the code satisfies
C3_MainStopsOnErrorPayload ==
    (lastRequest.handler = "main" /\ ErrorPayload(lastRequest)) =>
        /\ lastRequest.normalized = {}
        /\ lastRequest.preprocessed = {}
        /\ lastRequest.status = "400"
        /\ ~lastRequest.stored

\* the level field of a stored record
LevelField(doc, l) ==
    IF l = "basic" THEN doc.simplified_text_basic
    ELSE IF l = "intermediate" THEN doc.simplified_text_intermediate
    ELSE doc.simplified_text_advanced

\* the texts simplify_text can return for a text
SimplifiedTexts(text, level) ==
    {text} \cup {ParaphraserPath(text, level, ai) : ai \in AiRuns(text)}

\* C24: the record stored for a document processed at level L holds in the
\* field of L the text simplify_text gave for the normalized text at level L
\* and None in the two other fields; L is the requested level when that is
\* basic, intermediate or advanced, and basic otherwise
C24_LevelFieldHoldsText ==
    (lastRequest.handler = "app" /\ lastRequest.stored) =>
        /\ lastRequest.level \in Levels
        /\ lastRequest.request.level \in Levels =>
               lastRequest.level = lastRequest.request.level
        /\ lastRequest.request.level \notin Levels => lastRequest.level = "basic"
        /\ docs # <<>>
        /\ The({/\ LevelField(doc, lastRequest.level)
                       \in SimplifiedTexts(clean_text(doc.original_text),
                                           lastRequest.level)
                 /\ \A l \in Levels \ {lastRequest.level} :
                        LevelField(doc, l) = None :
                 doc \in {docs[Len(docs)]}})

\* a document requested at a level outside the enum is stored as basic
C24_Witness_BogusStoredAsBasic ==
    /\ lastRequest.handler = "app" /\ lastRequest.stored
    /\ lastRequest.request.level = "bogus"
    /\ lastRequest.level = "basic"
    /\ docs # <<>>
    /\ docs[Len(docs)].simplified_text_basic # None
    /\ docs[Len(docs)].simplified_text_intermediate = None
    /\ docs[Len(docs)].simplified_text_advanced = None

\* the sum of the counts of a Counter over the given keys
RECURSIVE SumCounts(_, _)
SumCounts(counts, keys) ==
    IF keys = {} THEN 0
    ELSE The({counts[k] + SumCounts(counts, keys \ {k}) :
              k \in {CHOOSE k \in keys : TRUE}})

\* the labels a clause can get
TypeLabels == Range(CLAUSE_LABELS) \cup {"Other"}

\* C28: in the result of every processed document there are clause_count
\* clause records, each with one type label, and the counts of
\* clause_type_summary sum to clause_count
C28_ClauseCountsAgree ==
    \A d \in 1..Len(docs) :
        /\ Len(docs[d].clauses) = docs[d].clause_count
        /\ \A i \in 1..Len(docs[d].clauses) : docs[d].clauses[i].type \in TypeLabels
        /\ DOMAIN docs[d].clause_type_summary =
               {docs[d].clauses[i].type : i \in 1..Len(docs[d].clauses)}
        /\ SumCounts(docs[d].clause_type_summary, DOMAIN docs[d].clause_type_summary)
               = docs[d].clause_count

\* two clauses of one type, counted twice under that type
C28_Witness_TwoClausesOfOneType ==
    /\ docs # <<>>
    /\ docs[1].clause_count = 2
    /\ docs[1].clauses[1].type = docs[1].clauses[2].type
    /\ docs[1].clause_type_summary[docs[1].clauses[1].type] = 2

====
